---- MODULE Spec2Model ----
(***************************************************************************)
(* Model of the Nixxer background core (class NixxerCore, src/popup.js     *)
(* lines 1076-2346): tracker classification, the blocking-target resolver, *)
(* the detected-domain registry with its eviction, the request and cookie  *)
(* handlers, the message handler and the export serializer.                *)
(*                                                                         *)
(* JavaScript strings are TLA+ strings; Len, SubSeq and \o act on them     *)
(* character by character, so endsWith / includes / startsWith / URL       *)
(* parsing are computed from the characters.                               *)
(***************************************************************************)
EXTENDS Integers, Sequences, FiniteSets, TLC

(***************************************************************************)
(* Bounds of the model.                                                    *)
(***************************************************************************)
\* Handler invocations explored per behaviour.
MaxSteps == 3
\* The length of one clock tick in ms; the clock is explored until it has
\* passed the deduplication window.
TickMs == 500
\* The settings limits of validateSettings, scaled down so that a registry
\* can be filled past them: MinHostsEntries stands for 50 (popup.js:1120),
\* MaxHostsLimit for 10000 (popup.js:1120), MinExportThreshold for 10
\* (popup.js:1128), DefaultMaxHostsEntries for 500 (popup.js:1312) and
\* DefaultAutoExportThreshold for 450 (popup.js:1313).
MinHostsEntries == 2
MaxHostsLimit == 3
MinExportThreshold == 1
DefaultMaxHostsEntries == 2
DefaultAutoExportThreshold == 1

(***************************************************************************)
(* Program constants.                                                      *)
(***************************************************************************)
\* validateDomain: longest accepted domain.
MaxDomainLength == 253
\* onBeforeRequest: deduplication window in ms.
DedupWindowMs == 1000
\* updateDetectedDomain: most sample details kept per record.
MaxDetails == 5
\* constructor: the debounce waits of debouncedSave and cleanupRecentRequests.
SaveDebounceMs == 3000
CleanupDebounceMs == 10000

(***************************************************************************)
(* String.prototype helpers.                                               *)
(***************************************************************************)
StartsWith(s, p) == Len(p) <= Len(s) /\ SubSeq(s, 1, Len(p)) = p

EndsWith(s, t) == Len(t) <= Len(s) /\ SubSeq(s, Len(s) - Len(t) + 1, Len(s)) = t

Includes(s, t) == \E i \in 1..(Len(s) - Len(t) + 1) : SubSeq(s, i, i + Len(t) - 1) = t

Upper == <<"A","B","C","D","E","F","G","H","I","J","K","L","M",
           "N","O","P","Q","R","S","T","U","V","W","X","Y","Z">>

Lower == <<"a","b","c","d","e","f","g","h","i","j","k","l","m",
           "n","o","p","q","r","s","t","u","v","w","x","y","z">>

LowerChar(c) ==
    IF \E i \in 1..26 : Upper[i] = c
    THEN Lower[CHOOSE i \in 1..26 : Upper[i] = c]
    ELSE c

RECURSIVE ToLowerCase(_)
ToLowerCase(s) ==
    IF Len(s) = 0 THEN s
    ELSE IF Len(s) = 1 THEN LowerChar(s)
    ELSE ToLowerCase(SubSeq(s, 1, Len(s) \div 2))
         \o ToLowerCase(SubSeq(s, Len(s) \div 2 + 1, Len(s)))

RECURSIVE TrimStart(_)
TrimStart(s) ==
    IF Len(s) > 0 /\ SubSeq(s, 1, 1) = " " THEN TrimStart(SubSeq(s, 2, Len(s))) ELSE s

RECURSIVE TrimEnd(_)
TrimEnd(s) ==
    IF Len(s) > 0 /\ SubSeq(s, Len(s), Len(s)) = " "
    THEN TrimEnd(SubSeq(s, 1, Len(s) - 1)) ELSE s

Trim(s) == TrimEnd(TrimStart(s))

\* Index of the first character of s that is in the set stop, or Len(s)+1.
FirstOf(s, stop) ==
    IF \E i \in 1..Len(s) : SubSeq(s, i, i) \in stop
    THEN CHOOSE i \in 1..Len(s) :
            /\ SubSeq(s, i, i) \in stop
            /\ \A j \in 1..(i - 1) : SubSeq(s, j, j) \notin stop
    ELSE Len(s) + 1

Digits == {"0","1","2","3","4","5","6","7","8","9"}

\* \d+ over the whole of s.
IsDigits(s) == Len(s) > 0 /\ \A i \in 1..Len(s) : SubSeq(s, i, i) \in Digits

(***************************************************************************)
(* new URL(s): the scheme, then the host up to the first of / ? # :, in    *)
(* lower case.  A string without an http(s) scheme or with an empty host   *)
(* does not parse (new URL throws).                                        *)
(***************************************************************************)
UrlRest(s) ==
    IF StartsWith(s, "https://") THEN SubSeq(s, 9, Len(s))
    ELSE IF StartsWith(s, "http://") THEN SubSeq(s, 8, Len(s))
    ELSE ""

UrlHostname(s) ==
    ToLowerCase(SubSeq(UrlRest(s), 1, FirstOf(UrlRest(s), {"/", "?", "#", ":"}) - 1))

UrlParses(s) == Len(UrlHostname(s)) > 0

(***************************************************************************)
(* Signature catalog.  A request pattern is a literal that must occur in   *)
(* the URL; tail = TRUE is the regex suffix (\?|$): the literal followed   *)
(* by "?" or ending the URL.  A cookie pattern is anchored at the start;   *)
(* exact = TRUE is the regex suffix $.                                     *)
(***************************************************************************)
Pat(lit, flag) == [lit |-> lit, flag |-> flag]

RequestPatternTest(p, url) ==
    IF p.flag THEN Includes(url, p.lit \o "?") \/ EndsWith(url, p.lit)
    ELSE Includes(url, p.lit)

CookiePatternTest(p, name) ==
    IF p.flag THEN name = p.lit ELSE StartsWith(name, p.lit)

GA_COOKIE_PATTERNS ==
    { Pat("_ga", TRUE), Pat("_gid", TRUE), Pat("_gat", FALSE), Pat("_gtag_", FALSE),
      Pat("__utma", TRUE), Pat("__utmb", TRUE), Pat("__utmc", TRUE), Pat("__utmz", TRUE) }

GTM_COOKIE_PATTERNS ==
    { Pat("_gcl_", FALSE), Pat("_gac_", FALSE), Pat("_dc_gtm_", FALSE),
      Pat("_fbc", TRUE), Pat("_fbp", TRUE) }

\* /^GA1\.\d+\.\d+\.\d+$/ and /^GA1\.\d+\.\d+$/
RECURSIVE SplitDots(_)
SplitDots(s) ==
    LET i == FirstOf(s, {"."})
    IN  IF i > Len(s) THEN <<s>>
        ELSE <<SubSeq(s, 1, i - 1)>> \o SplitDots(SubSeq(s, i + 1, Len(s)))

GA_VALUE_PATTERNS_Test(value) ==
    /\ StartsWith(value, "GA1.")
    /\ LET parts == SplitDots(SubSeq(value, 5, Len(value)))
       IN  Len(parts) \in {2, 3} /\ \A i \in 1..Len(parts) : IsDigits(parts[i])

GA_REQUEST_PATTERNS ==
    { Pat("/collect", TRUE), Pat("/g/collect", TRUE), Pat("/mp/collect", TRUE),
      Pat("/gtm.js", TRUE), Pat("/gtag/js", TRUE),
      Pat("google-analytics.com", FALSE), Pat("googletagmanager.com", FALSE) }

FACEBOOK_COOKIE_PATTERNS ==
    { Pat("_fbc", TRUE), Pat("_fbp", TRUE), Pat("fr", TRUE), Pat("datr", TRUE),
      Pat("sb", TRUE), Pat("wd", TRUE) }

FACEBOOK_REQUEST_PATTERNS ==
    { Pat("facebook.com/tr", FALSE), Pat("connect.facebook.net", FALSE),
      Pat(".facebook.com/plugins", FALSE), Pat("fbevents.js", FALSE) }

ADOBE_COOKIE_PATTERNS ==
    { Pat("s_cc", TRUE), Pat("s_sq", TRUE), Pat("s_vi", TRUE), Pat("s_fid", TRUE),
      Pat("AMCV_", FALSE), Pat("mbox", FALSE) }

ADOBE_REQUEST_PATTERNS ==
    { Pat("2o7.net", FALSE), Pat("omtrdc.net", FALSE), Pat("demdex.net", FALSE),
      Pat("everesttech.net", FALSE) }

SESSION_RECORDING_COOKIE_PATTERNS ==
    { Pat("_hjid", TRUE), Pat("_hjSession", FALSE), Pat("_hjIncludedInSample", FALSE),
      Pat("fs_uid", TRUE), Pat("FS.", FALSE), Pat("_lr_", FALSE), Pat("_hotjar", FALSE) }

SESSION_RECORDING_REQUEST_PATTERNS ==
    { Pat("hotjar.com", FALSE), Pat("fullstory.com", FALSE), Pat("logrocket.com", FALSE),
      Pat("mouseflow.com", FALSE), Pat("smartlook.com", FALSE) }

TIKTOK_COOKIE_PATTERNS ==
    { Pat("_ttp", TRUE), Pat("_tt_enable_cookie", TRUE),
      Pat("tt_pixel_session_index", TRUE), Pat("tt_sessionId", TRUE) }

TIKTOK_REQUEST_PATTERNS ==
    { Pat("analytics.tiktok.com", FALSE), Pat("business-api.tiktok.com", FALSE),
      Pat(".tiktok.com/pixel", FALSE) }

KNOWN_TRACKING_DOMAINS ==
    { "google-analytics.com", "googletagmanager.com", "www.google-analytics.com",
      "www.googletagmanager.com", "facebook.com", "connect.facebook.net",
      "www.facebook.com", "2o7.net", "omtrdc.net", "demdex.net", "everesttech.net",
      "hotjar.com", "fullstory.com", "logrocket.com", "mouseflow.com", "smartlook.com",
      "analytics.tiktok.com", "business-api.tiktok.com", "stats.wp.com",
      "scorecardresearch.com", "quantserve.com", "doubleclick.net",
      "googlesyndication.com", "analytics.twitter.com", "platform.twitter.com" }

TRACKING_DOMAIN_SUFFIXES ==
    { "google-analytics.com", "googletagmanager.com", "facebook.net", "hotjar.com",
      "fullstory.com", "doubleclick.net" }

\* The list local to determineBlockingTarget.
THIRD_PARTY_TRACKING_DOMAINS ==
    { "google-analytics.com", "googletagmanager.com", "www.google-analytics.com",
      "www.googletagmanager.com", "facebook.com", "connect.facebook.net",
      "www.facebook.com", "2o7.net", "omtrdc.net", "demdex.net", "everesttech.net",
      "hotjar.com", "fullstory.com", "logrocket.com", "mouseflow.com", "smartlook.com",
      "analytics.tiktok.com", "business-api.tiktok.com", "stats.wp.com",
      "scorecardresearch.com", "quantserve.com", "doubleclick.net",
      "googlesyndication.com", "analytics.twitter.com", "platform.twitter.com" }

\* The list local to isSelfHostedGA (plain substrings, no (\?|$) suffix).
SELF_HOSTED_PATTERNS ==
    { "/gtag/js", "/gtm.js", "/analytics.js", "/ga.js", "/collect?", "/g/collect?",
      "/mp/collect?" }

(***************************************************************************)
(* Classifier.                                                             *)
(***************************************************************************)
isKnownTrackingDomain(hostname) ==
    LET cleanHostname == Trim(ToLowerCase(hostname))
    IN  \/ cleanHostname \in KNOWN_TRACKING_DOMAINS
        \/ \E suffix \in TRACKING_DOMAIN_SUFFIXES : EndsWith(cleanHostname, suffix)
        \/ \E domain \in KNOWN_TRACKING_DOMAINS : EndsWith(cleanHostname, "." \o domain)

isTrackingRequest(url) ==
    \/ \E p \in GA_REQUEST_PATTERNS : RequestPatternTest(p, url)
    \/ \E p \in FACEBOOK_REQUEST_PATTERNS : RequestPatternTest(p, url)
    \/ \E p \in ADOBE_REQUEST_PATTERNS : RequestPatternTest(p, url)
    \/ \E p \in SESSION_RECORDING_REQUEST_PATTERNS : RequestPatternTest(p, url)
    \/ \E p \in TIKTOK_REQUEST_PATTERNS : RequestPatternTest(p, url)

\* isTrackingCookie returning true only when the value matches GA_VALUE_PATTERNS too.
isTrackingCookieByValue(name, value) ==
    /\ \E p \in GA_COOKIE_PATTERNS \cup GTM_COOKIE_PATTERNS \cup FACEBOOK_COOKIE_PATTERNS
                \cup ADOBE_COOKIE_PATTERNS \cup SESSION_RECORDING_COOKIE_PATTERNS
                \cup TIKTOK_COOKIE_PATTERNS : CookiePatternTest(p, name)
    /\ Len(value) > 0
    /\ GA_VALUE_PATTERNS_Test(value)

isTrackingCookie(name, value) ==
    LET isGAName == \E p \in GA_COOKIE_PATTERNS : CookiePatternTest(p, name)
        isGTMName == \E p \in GTM_COOKIE_PATTERNS : CookiePatternTest(p, name)
        isFacebookName == \E p \in FACEBOOK_COOKIE_PATTERNS : CookiePatternTest(p, name)
        isAdobeName == \E p \in ADOBE_COOKIE_PATTERNS : CookiePatternTest(p, name)
        isSessionRecordingName ==
            \E p \in SESSION_RECORDING_COOKIE_PATTERNS : CookiePatternTest(p, name)
        isTikTokName == \E p \in TIKTOK_COOKIE_PATTERNS : CookiePatternTest(p, name)
    IN  IF \/ isGAName \/ isGTMName \/ isFacebookName
           \/ isAdobeName \/ isSessionRecordingName \/ isTikTokName
        THEN IF Len(value) > 0 /\ GA_VALUE_PATTERNS_Test(value) THEN TRUE ELSE TRUE
        ELSE FALSE

(***************************************************************************)
(* Events the surroundings can deliver.                                    *)
(***************************************************************************)
RequestUrls ==
    { "https://www.google-analytics.com/collect?v=1",
      "https://news.example/gtm.js",
      "https://shop.example/api/collect",
      "https://notfacebook.net/sdk.js",
      "https://news.example/index.html",
      "//www.google-analytics.com/collect?v=1" }

\* A domain one character longer than validateDomain accepts.
LongDomain ==
    LET a2 == "aa"
        a4 == a2 \o a2
        a8 == a4 \o a4
        a16 == a8 \o a8
        a32 == a16 \o a16
        a64 == a32 \o a32
        a128 == a64 \o a64
    IN  a128 \o a64 \o a32 \o a16 \o a8 \o a4 \o a2

\* Requests of pages that match no tracker.
TrafficUrls ==
    { "https://news.example/index.html", "https://news.example/about.html",
      "https://news.example/contact.html" }

Cookie(name, value, domain) == [name |-> name, value |-> value, domain |-> domain]

\* changeInfo of cookies.onChanged: {removed, cookie}
CookieChanges ==
    { [removed |-> FALSE, cookie |-> Cookie("_ga", "GA1.2.123.456", ".google-analytics.com")],
      [removed |-> FALSE, cookie |-> Cookie("_ga", "GA1.2.123.456", "news.example")],
      [removed |-> FALSE, cookie |-> Cookie("_fbp", "fb.1.1.1", "")],
      [removed |-> FALSE, cookie |-> Cookie("sid", "abc", "news.example")],
      [removed |-> TRUE,  cookie |-> Cookie("_ga", "GA1.2.123.456", "news.example")] }

DetectionMessages ==
    [domain : {"news.example", " Connect.Facebook.NET", ""},
     method : {"javascript"}, details : {"gtag('config','G-1')"}]
    \cup
    [domain : {"news.example"},
     method : {"request"}, details : {"https://www.googletagmanager.com/gtm.js"}]

ZombieMessages ==
    [domain : {"news.example", "shop.example", ""},
     method : {"zombie-storage"}, details : {"localStorage:_ga"}]

SettingsUpdates ==
    { [maxHostsEntries |-> v] : v \in (MinHostsEntries - 1)..(MaxHostsLimit + 1) }
    \cup { [autoExportThreshold |-> v] :
              v \in {MinExportThreshold - 1, MinExportThreshold, MaxHostsLimit + 1} }
    \cup { [detectionSensitivity |-> v] : v \in {"low", "medium"} }
    \cup { [blockSelfHosted |-> FALSE], [autoCleanup |-> FALSE] }
    \cup { [maxHostsEntries |-> MaxHostsLimit,
            autoExportThreshold |-> MinExportThreshold - 1] }

\* Arguments of the resolver applied on its own.
ProbeHosts ==
    KNOWN_TRACKING_DOMAINS \cup { "cdn." \o d : d \in KNOWN_TRACKING_DOMAINS }
    \cup TRACKING_DOMAIN_SUFFIXES \cup { "x." \o d : d \in TRACKING_DOMAIN_SUFFIXES }
    \cup { "news.example", "notfacebook.net", "myhotjar.com" }

ProbePaths ==
    { "/gtag/js?id=G-1", "/gtm.js", "/analytics.js", "/ga.js", "/collect?v=1",
      "/g/collect?v=2", "/mp/collect?v=2", "/api/collect", "/index.html" }

ProbeUrl(host, path) == "https://" \o host \o path

(***************************************************************************)
(* The string functions, tabulated once over every string the events can   *)
(* bring in (TLC evaluates a constant definition a single time).  Each     *)
(* table is filled by the operator that translates the code; the handlers  *)
(* below read the tables.  A value is handed on as an operator argument    *)
(* rather than named in a LET wherever it is used more than once.          *)
(***************************************************************************)
validateDomain(domain) == Trim(ToLowerCase(domain))

StripLeadingDot(d) == IF StartsWith(d, ".") THEN SubSeq(d, 2, Len(d)) ELSE d

\* A resolver that never recognises a self-hosting signature.
isSelfHostedGANever(details, method) == FALSE

isSelfHostedGA(details, method) ==
    IF method # "request" THEN FALSE
    ELSE \E pattern \in SELF_HOSTED_PATTERNS : Includes(details, pattern)

isThirdPartyTracker(trackingDomain) ==
    \E tracker \in THIRD_PARTY_TRACKING_DOMAINS :
        trackingDomain = tracker \/ EndsWith(trackingDomain, "." \o tracker)

EventStrings ==
    RequestUrls
    \cup { c.cookie.domain : c \in CookieChanges } \cup { c.cookie.name : c \in CookieChanges }
    \cup { m.domain : m \in DetectionMessages \cup ZombieMessages }
    \cup { m.details : m \in DetectionMessages \cup ZombieMessages }
    \cup ProbeHosts \cup { ProbeUrl(h, p) : h \in ProbeHosts, p \in ProbePaths }
    \cup TrafficUrls \cup {LongDomain}

WithHostnames(S) == S \cup { UrlHostname(s) : s \in S }

WithClean(S) == S \cup { validateDomain(s) : s \in S }

WithStripped(S) == S \cup { StripLeadingDot(s) : s \in S }

Strings == WithStripped(WithClean(WithHostnames(EventStrings)))

Parses == [s \in Strings |-> UrlParses(s)]

Hostname == [s \in Strings |-> UrlHostname(s)]

Clean == [s \in Strings |-> validateDomain(s)]

Known == [s \in Strings |-> isKnownTrackingDomain(s)]

Tracking == [s \in Strings |-> isTrackingRequest(s)]

ThirdParty == [s \in Strings |-> isThirdPartyTracker(s)]

SelfHosted == [s \in Strings |-> isSelfHostedGA(s, "request")]

TrackingCookie ==
    [c \in { x.cookie : x \in CookieChanges } |-> isTrackingCookie(c.name, c.value)]

(***************************************************************************)
(* Blocking-target resolver.                                               *)
(***************************************************************************)
BlockingInfo(shouldBlock, addToBlocklist, targetDomain, blockingMethod) ==
    [shouldBlock |-> shouldBlock, addToBlocklist |-> addToBlocklist,
     targetDomain |-> targetDomain, blockingMethod |-> blockingMethod]

\* let trackingDomain = domain; try { trackingDomain = new URL(details).hostname }
TrackingDomainOf(domain, method, details) ==
    IF method = "request" /\ Parses[details] THEN Hostname[details] ELSE domain

\* determineBlockingTarget with the sensitivity test before the self-hosted test.
resolveTargetLowFirst(trackingDomain, domain, method, details, cfg) ==
    IF ThirdParty[trackingDomain]
    THEN BlockingInfo(TRUE, TRUE, trackingDomain, "network_level")
    ELSE IF cfg.detectionSensitivity = "low"
    THEN BlockingInfo(FALSE, FALSE, domain, "none")
    ELSE IF method = "request" /\ SelfHosted[details] /\ cfg.blockSelfHosted
    THEN BlockingInfo(TRUE, FALSE, domain, "browser_only")
    ELSE BlockingInfo(TRUE, FALSE, domain, "browser_only")

\* The four returns of determineBlockingTarget, in their order.
resolveTarget(trackingDomain, domain, method, details, cfg) ==
    IF ThirdParty[trackingDomain]
    THEN BlockingInfo(TRUE, TRUE, trackingDomain, "network_level")
    ELSE IF method = "request" /\ SelfHosted[details] /\ cfg.blockSelfHosted
    THEN BlockingInfo(TRUE, FALSE, domain, "browser_only")
    ELSE IF cfg.detectionSensitivity = "low"
    THEN BlockingInfo(FALSE, FALSE, domain, "none")
    ELSE BlockingInfo(TRUE, FALSE, domain, "browser_only")

determineBlockingTarget(domain, method, details, cfg) ==
    resolveTarget(TrackingDomainOf(domain, method, details), domain, method, details, cfg)

(***************************************************************************)
(* State of the NixxerCore instance and of its surroundings.               *)
(***************************************************************************)
VARIABLES
    isEnabled,          \* this.isEnabled
    blockedToday,       \* this.blockedToday
    cookiesDeleted,     \* this.cookiesDeleted
    detectedDomains,    \* this.detectedDomains: the Map's entries in insertion order
    settings,           \* this.settings
    performanceStats,   \* this.performanceStats (the two counters)
    recentRequests,     \* this.recentRequests: the Map's (url, timestamp) pairs
    timers,             \* deadlines of the two debounce timers, -1 = not armed
    pendingRemoves,     \* browser.cookies.remove calls not yet settled
    now,                \* Date.now()
    steps,              \* handler invocations so far
    out,                \* what the last handler returned and called
    probe,              \* argument and result of a function applied on its own
    storage,            \* browser.storage.local: the keys the extension writes
    saving              \* this.pendingSave and the write saveData awaits

vars == <<isEnabled, blockedToday, cookiesDeleted, detectedDomains, settings,
          performanceStats, recentRequests, timers, pendingRemoves, now, steps,
          out, probe, storage, saving>>

\* What the options page, a separate page, cannot assign.
optionsUnchanged ==
    <<isEnabled, blockedToday, cookiesDeleted, detectedDomains, settings,
      performanceStats, recentRequests, timers, pendingRemoves, now>>

coreVars == <<isEnabled, blockedToday, cookiesDeleted, detectedDomains, settings,
              performanceStats, recentRequests, timers, pendingRemoves, now, steps, out>>

NoInfo == BlockingInfo(FALSE, FALSE, "", "unresolved")

\* What a handler returned and which calls it made; event is its argument,
\* responses the number of its calls of sendResponse.
NoOut == [kind |-> "none", event |-> [none |-> TRUE], processed |-> FALSE,
          matched |-> FALSE, cancel |-> FALSE, info |-> NoInfo, recorded |-> "",
          evicted |-> {}, deleteCookie |-> FALSE, removeCalled |-> FALSE,
          suggested |-> FALSE, response |-> "", exported |-> {},
          stats |-> [totalDomains |-> 0, recentDomains |-> <<>>],
          responses |-> 0]

DefaultSettings ==
    [maxHostsEntries |-> DefaultMaxHostsEntries,
     autoExportThreshold |-> DefaultAutoExportThreshold,
     detectionSensitivity |-> "high",
     blockSelfHosted |-> TRUE,
     autoCleanup |-> TRUE]

EmptyStorage ==
    [keys |-> {}, detectedDomains |-> <<>>, settings |-> [none |-> TRUE],
     statistics |-> [blockedToday |-> 0, cookiesDeleted |-> 0, lastUpdated |-> 0]]

\* No save under way: pendingSave is false.
NotSaving == [pendingSave |-> FALSE, attempt |-> 0, data |-> EmptyStorage]

CoreInit ==
    /\ isEnabled = TRUE
    /\ blockedToday = 0
    /\ cookiesDeleted = 0
    /\ detectedDomains = <<>>
    /\ settings = DefaultSettings
    /\ performanceStats = [requestsProcessed |-> 0, requestsBlocked |-> 0]
    /\ recentRequests = {}
    /\ timers = [save |-> -1, cleanup |-> -1]
    /\ pendingRemoves = 0
    /\ now = 0
    /\ steps = 0
    /\ out = NoOut
    /\ saving = NotSaving

NoProbe == [fn |-> "none"]

\* storage.local before the extension wrote to it: keys are the top-level
\* keys present, the other fields hold their values.
Init == CoreInit /\ probe = NoProbe /\ storage = EmptyStorage

(***************************************************************************)
(* Validation.  validateDomain and validateSettings throw on bad input.    *)
(***************************************************************************)
\* validateDomain without the limit of 253 characters.
validateDomainThrowsIfEmpty(domain) == Len(domain) = 0

validateDomainThrows(domain) == Len(domain) = 0 \/ Len(domain) > MaxDomainLength

\* validateSettings without the check of autoExportThreshold.
validateSettingsMaxOnly(upd) ==
    /\ "maxHostsEntries" \in DOMAIN upd
    /\ (upd.maxHostsEntries < MinHostsEntries \/ upd.maxHostsEntries > MaxHostsLimit)

validateSettingsThrows(upd) ==
    \/ /\ "maxHostsEntries" \in DOMAIN upd
       /\ (upd.maxHostsEntries < MinHostsEntries \/ upd.maxHostsEntries > MaxHostsLimit)
    \/ /\ "autoExportThreshold" \in DOMAIN upd
       /\ upd.autoExportThreshold < MinExportThreshold

\* Object.assign(this.settings, validatedSettings)
AssignSettings(cfg, upd) ==
    [f \in DOMAIN cfg |-> IF f \in DOMAIN upd THEN upd[f] ELSE cfg[f]]

(***************************************************************************)
(* Domain registry.                                                        *)
(***************************************************************************)
Keys(reg) == { reg[i].key : i \in 1..Len(reg) }

HasKey(reg, k) == \E i \in 1..Len(reg) : reg[i].key = k

IndexOfKey(reg, k) == CHOOSE i \in 1..Len(reg) : reg[i].key = k

Get(reg, k) == reg[IndexOfKey(reg, k)]

SeqIncludes(seq, x) == \E i \in 1..Len(seq) : seq[i] = x

\* A record created without its detection method.
NewRecordNoMethod(key, method, details, hostDomain, timestamp, isZombieCookie) ==
    [key |-> key, firstSeen |-> timestamp, lastSeen |-> timestamp, frequency |-> 1,
     gaTypes |-> <<>>, blocked |-> TRUE, details |-> <<details>>,
     hostDomain |-> hostDomain, isZombieCookie |-> isZombieCookie]

NewRecord(key, method, details, hostDomain, timestamp, isZombieCookie) ==
    [key |-> key, firstSeen |-> timestamp, lastSeen |-> timestamp, frequency |-> 1,
     gaTypes |-> <<method>>, blocked |-> TRUE, details |-> <<details>>,
     hostDomain |-> hostDomain, isZombieCookie |-> isZombieCookie]

\* A repeat that appends the detail whatever the length of details.
RepeatRecordUncapped(existing, method, details, timestamp) ==
    [existing EXCEPT
        !.lastSeen = timestamp,
        !.frequency = existing.frequency + 1,
        !.gaTypes = IF SeqIncludes(existing.gaTypes, method)
                    THEN existing.gaTypes ELSE Append(existing.gaTypes, method),
        !.details = Append(existing.details, details)]

\* The else branch of updateDetectedDomain.
RepeatRecord(existing, method, details, timestamp) ==
    [existing EXCEPT
        !.lastSeen = timestamp,
        !.frequency = existing.frequency + 1,
        !.gaTypes = IF SeqIncludes(existing.gaTypes, method)
                    THEN existing.gaTypes ELSE Append(existing.gaTypes, method),
        !.details = IF Len(existing.details) < MaxDetails
                    THEN Append(existing.details, details) ELSE existing.details]

updateDetectedDomain(reg, domainKey, method, details, hostDomain, timestamp) ==
    IF ~HasKey(reg, domainKey)
    THEN Append(reg, NewRecord(domainKey, method, details, hostDomain, timestamp, FALSE))
    ELSE [reg EXCEPT ![IndexOfKey(reg, domainKey)] =
            RepeatRecord(Get(reg, domainKey), method, details, timestamp)]

\* The else branch of handleZombieCookieDetection: no append to details.
RepeatZombie(existing, method, timestamp) ==
    [existing EXCEPT
        !.lastSeen = timestamp,
        !.frequency = existing.frequency + 1,
        !.gaTypes = IF SeqIncludes(existing.gaTypes, method)
                    THEN existing.gaTypes ELSE Append(existing.gaTypes, method)]

\* The Map update of handleZombieCookieDetection (a zombie record has no
\* hostDomain field; it is "" here).
updateZombieDomain(reg, zombieKey, method, details, timestamp) ==
    IF ~HasKey(reg, zombieKey)
    THEN Append(reg, NewRecord(zombieKey, method, details, "", timestamp, TRUE))
    ELSE [reg EXCEPT ![IndexOfKey(reg, zombieKey)] =
            RepeatZombie(Get(reg, zombieKey), method, timestamp)]

\* entries.sort((a, b) => a[1].lastSeen - b[1].lastSeen): a stable sort, so
\* entry i comes before entry j iff it is older, or as old and earlier in the Map.
SortsBefore(entries, i, j) ==
    \/ entries[i].lastSeen < entries[j].lastSeen
    \/ entries[i].lastSeen = entries[j].lastSeen /\ i < j

\* Entries left in Map insertion order.
SortByInsertion(entries) == entries

SortByLastSeen(entries) ==
    [r \in 1..Len(entries) |->
        entries[CHOOSE i \in 1..Len(entries) :
                   Cardinality({ j \in 1..Len(entries) : SortsBefore(entries, j, i) }) = r - 1]]

\* Map.prototype.delete for each key of ks: the other entries keep their order.
DeleteKeys(reg, ks) == SelectSeq(reg, LAMBDA e : e.key \notin ks)

\* entries.slice(0, entries.length - maxHostsEntries) of the sorted entries.
OldestKeys(sorted, count) == { sorted[i].key : i \in 1..count }

\* The keys manageBlocklist deletes (none with autoCleanup off, or within size).
toRemove(reg, cfg) ==
    IF cfg.autoCleanup /\ Len(reg) > cfg.maxHostsEntries
    THEN OldestKeys(SortByLastSeen(reg), Len(reg) - cfg.maxHostsEntries)
    ELSE {}

manageBlocklist(reg, cfg) == DeleteKeys(reg, toRemove(reg, cfg))

\* manageBlocklist reaches suggestExport() only when autoCleanup is on.
suggestsExport(cfg) == cfg.autoCleanup

(***************************************************************************)
(* handleTrackerDetection: the registry it leaves and what it called.      *)
(* Its body has no await, so it runs to completion inside the caller.      *)
(***************************************************************************)
Detection(reg, info, recorded, evicted, suggested, saved) ==
    [reg |-> reg, info |-> info, recorded |-> recorded, evicted |-> evicted,
     suggested |-> suggested, saved |-> saved]

\* if (this.detectedDomains.size >= this.settings.autoExportThreshold) manageBlocklist()
manageAtThreshold(reg, cfg, blockingInfo, recorded, managed) ==
    Detection(IF managed THEN manageBlocklist(reg, cfg) ELSE reg,
              blockingInfo, recorded,
              IF managed THEN toRemove(reg, cfg) ELSE {},
              managed /\ suggestsExport(cfg),
              TRUE)

detectionRecorded(reg, cfg, blockingInfo, recorded) ==
    manageAtThreshold(reg, cfg, blockingInfo, recorded,
                      Len(reg) >= cfg.autoExportThreshold)

\* A detection recorded whatever addToBlocklist says.
recordAlways(reg, cfg, blockingInfo, domainKey, cleanDomain, method, details, timestamp) ==
    detectionRecorded(updateDetectedDomain(reg, domainKey, method, details,
                                           cleanDomain, timestamp),
                      cfg, blockingInfo, domainKey)

\* if (blockingInfo.addToBlocklist) updateDetectedDomain(domainKey, ...)
recordIfListed(reg, cfg, blockingInfo, domainKey, cleanDomain, method, details, timestamp) ==
    IF blockingInfo.addToBlocklist
    THEN detectionRecorded(updateDetectedDomain(reg, domainKey, method, details,
                                                cleanDomain, timestamp),
                           cfg, blockingInfo, domainKey)
    ELSE detectionRecorded(reg, cfg, blockingInfo, "")

\* if (!blockingInfo.shouldBlock) return
detectionResolved(reg, cfg, blockingInfo, cleanDomain, method, details, timestamp) ==
    IF ~blockingInfo.shouldBlock
    THEN Detection(reg, blockingInfo, "", {}, FALSE, FALSE)
    ELSE recordIfListed(reg, cfg, blockingInfo, StripLeadingDot(blockingInfo.targetDomain),
                        cleanDomain, method, details, timestamp)

detectionValidated(reg, cfg, cleanDomain, method, details, timestamp) ==
    detectionResolved(reg, cfg,
                      determineBlockingTarget(cleanDomain, method, details, cfg),
                      cleanDomain, method, details, timestamp)

handleTrackerDetection(reg, cfg, domain, method, details, timestamp) ==
    IF validateDomainThrows(domain)
    THEN Detection(reg, NoInfo, "", {}, FALSE, FALSE)
    ELSE detectionValidated(reg, cfg, Clean[domain], method, details, timestamp)

\* this.debouncedSave(): the save timer is (re)armed.
ArmSave(t, saved) == IF saved THEN [t EXCEPT !.save = now + SaveDebounceMs] ELSE t

(***************************************************************************)
(* webRequest.onBeforeRequest listener.                                    *)
(***************************************************************************)
RecentAt(url) == { r.at : r \in { q \in recentRequests : q.url = url } }

\* A listener without the deduplication window.
NeverDeduplicated(url) == FALSE

\* this.recentRequests.has(url) && now - lastSeen < 1000
Deduplicated(url) == \E lastSeen \in RecentAt(url) : now - lastSeen < DedupWindowMs

\* this.recentRequests.set(details.url, now)
RememberRequest(url) ==
    { r \in recentRequests : r.url # url } \cup { [url |-> url, at |-> now] }

updatePerformanceStats(stats, blocked) ==
    [requestsProcessed |-> stats.requestsProcessed + 1,
     requestsBlocked |-> stats.requestsBlocked + (IF blocked THEN 1 ELSE 0)]

\* Every matched request cancelled, whatever the resolver returned.
alwaysCancel(matched, blockingInfo) == matched

\* The request is cancelled when it matched and blockingInfo.shouldBlock holds.
shouldCancel(matched, blockingInfo) == matched /\ blockingInfo.shouldBlock

\* The early returns of the listener: nothing but the returned {}.
RequestIgnored(url) ==
    /\ out' = [NoOut EXCEPT !.kind = "request", !.event = [url |-> url]]
    /\ UNCHANGED <<isEnabled, blockedToday, cookiesDeleted, detectedDomains, settings,
                   performanceStats, recentRequests, timers, pendingRemoves, now>>

RequestApplied(url, matched, blockingInfo, block, d) ==
    /\ recentRequests' = RememberRequest(url)
    /\ performanceStats' = updatePerformanceStats(performanceStats, block)
    /\ detectedDomains' = IF block THEN d.reg ELSE detectedDomains
    /\ blockedToday' = IF block THEN blockedToday + 1 ELSE blockedToday
    /\ timers' = [ArmSave(timers, block /\ d.saved) EXCEPT !.cleanup = now + CleanupDebounceMs]
    /\ out' = [NoOut EXCEPT !.kind = "request", !.event = [url |-> url],
                            !.processed = TRUE, !.matched = matched, !.cancel = block,
                            !.info = IF matched THEN blockingInfo ELSE NoInfo,
                            !.recorded = IF block THEN d.recorded ELSE "",
                            !.evicted = IF block THEN d.evicted ELSE {},
                            !.suggested = block /\ d.suggested]
    /\ UNCHANGED <<isEnabled, cookiesDeleted, settings, pendingRemoves, now>>

RequestResolved(url, matched, blockingInfo, d) ==
    RequestApplied(url, matched, blockingInfo, shouldCancel(matched, blockingInfo), d)

\* A request matched although its URL did not parse.
requestMatchesUnparsed(parses, known, tracking) == known \/ tracking

\* new URL(details.url) throwing skips the two tests and is caught: the
\* request then counts as not matched.
requestMatches(parses, known, tracking) == parses /\ (known \/ tracking)

RequestClassified(url, hostname) ==
    RequestResolved(url,
        requestMatches(Parses[url], Known[hostname], Tracking[url]),
        determineBlockingTarget(hostname, "request", url, settings),
        handleTrackerDetection(detectedDomains, settings, hostname, "request", url, now))

OnBeforeRequest(url) ==
    /\ steps < MaxSteps
    /\ steps' = steps + 1
    /\ UNCHANGED <<probe, storage, saving>>
    /\ IF ~isEnabled \/ Deduplicated(url)
       THEN RequestIgnored(url)
       ELSE RequestClassified(url, Hostname[url])

(***************************************************************************)
(* cookies.onChanged listener and deleteCookie.                            *)
(***************************************************************************)
\* The cookie deleted only when the resolver decided to block.
deletesCookieIfBlocked(tracking, d) == tracking /\ d.info.shouldBlock

\* if (isTrackingCookie(...)) { handleTrackerDetection(...); deleteCookie(cookie) }
deletesCookie(tracking, d) == tracking

\* deleteCookie returns before cookies.remove when the cookie has no domain.
callsRemove(cookie) == Len(cookie.name) > 0 /\ Len(cookie.domain) > 0

CookieIgnored(changeInfo) ==
    /\ out' = [NoOut EXCEPT !.kind = "cookie", !.event = changeInfo]
    /\ UNCHANGED <<isEnabled, blockedToday, cookiesDeleted, detectedDomains, settings,
                   performanceStats, recentRequests, timers, pendingRemoves, now>>

CookieApplied(changeInfo, d, delete) ==
    /\ detectedDomains' = d.reg
    /\ timers' = ArmSave(timers, d.saved)
    /\ pendingRemoves' = IF delete /\ callsRemove(changeInfo.cookie)
                         THEN pendingRemoves + 1 ELSE pendingRemoves
    /\ out' = [NoOut EXCEPT !.kind = "cookie", !.event = changeInfo,
                            !.processed = TRUE, !.matched = TRUE, !.info = d.info,
                            !.recorded = d.recorded, !.evicted = d.evicted,
                            !.suggested = d.suggested, !.deleteCookie = delete,
                            !.removeCalled = delete /\ callsRemove(changeInfo.cookie)]
    /\ UNCHANGED <<isEnabled, blockedToday, cookiesDeleted, settings, performanceStats,
                   recentRequests, now>>

CookieDetected(changeInfo, d) ==
    CookieApplied(changeInfo, d, deletesCookie(TRUE, d))

OnCookieChanged(changeInfo) ==
    /\ steps < MaxSteps
    /\ steps' = steps + 1
    /\ UNCHANGED <<probe, storage, saving>>
    /\ IF \/ ~isEnabled \/ changeInfo.removed
          \/ Len(changeInfo.cookie.name) = 0
          \/ ~TrackingCookie[changeInfo.cookie]
       THEN CookieIgnored(changeInfo)
       ELSE CookieDetected(changeInfo,
                handleTrackerDetection(detectedDomains, settings, changeInfo.cookie.domain,
                                       "cookie", changeInfo.cookie.name, now))

\* The awaited browser.cookies.remove settles: cookiesDeleted++ when it resolved,
\* nothing when it rejected or timed out.
CookieRemoveSettled(ok) ==
    /\ pendingRemoves > 0
    /\ pendingRemoves' = pendingRemoves - 1
    /\ cookiesDeleted' = IF ok THEN cookiesDeleted + 1 ELSE cookiesDeleted
    /\ UNCHANGED <<isEnabled, blockedToday, detectedDomains, settings, performanceStats,
                   recentRequests, timers, now, steps, out, probe, storage, saving>>

(***************************************************************************)
(* runtime.onMessage: handleMessage.                                       *)
(***************************************************************************)
\* A catch block that logs the error and sends no response.
MessageFailedUnanswered(kind, msg, response) ==
    /\ out' = [NoOut EXCEPT !.kind = kind, !.event = msg]
    /\ UNCHANGED <<isEnabled, blockedToday, cookiesDeleted, detectedDomains, settings,
                   performanceStats, recentRequests, timers, pendingRemoves, now>>

MessageFailed(kind, msg, response) ==
    /\ out' = [NoOut EXCEPT !.kind = kind, !.event = msg, !.response = response,
                            !.responses = 1]
    /\ UNCHANGED <<isEnabled, blockedToday, cookiesDeleted, detectedDomains, settings,
                   performanceStats, recentRequests, timers, pendingRemoves, now>>

GaApplied(msg, d) ==
    /\ detectedDomains' = d.reg
    /\ timers' = ArmSave(timers, d.saved)
    /\ out' = [NoOut EXCEPT !.kind = "GA_DETECTED", !.event = msg, !.processed = TRUE,
                            !.info = d.info, !.recorded = d.recorded,
                            !.evicted = d.evicted, !.suggested = d.suggested,
                            !.response = "success", !.responses = 1]
    /\ UNCHANGED <<isEnabled, blockedToday, cookiesDeleted, settings, performanceStats,
                   recentRequests, pendingRemoves, now>>

\* case 'GA_DETECTED'
OnGaDetected(msg) ==
    /\ steps < MaxSteps
    /\ steps' = steps + 1
    /\ UNCHANGED <<probe, storage, saving>>
    /\ IF validateDomainThrows(msg.domain)
       THEN MessageFailed("GA_DETECTED", msg, "Failed to process detection")
       ELSE GaApplied(msg,
                handleTrackerDetection(detectedDomains, settings, Clean[msg.domain],
                                       msg.method, msg.details, now))

\* handleZombieCookieDetection: validateDomain throwing is caught inside it.
handleZombieCookieDetection(reg, domain, method, details, timestamp) ==
    IF validateDomainThrows(domain) THEN reg
    ELSE updateZombieDomain(reg, Clean[domain] \o "_zombie", method, details, timestamp)

ZombieApplied(msg, cleanDomain) ==
    /\ detectedDomains' = handleZombieCookieDetection(detectedDomains, cleanDomain,
                                                      msg.method, msg.details, now)
    /\ timers' = ArmSave(timers, ~validateDomainThrows(cleanDomain))
    /\ out' = [NoOut EXCEPT !.kind = "ZOMBIE_COOKIE_DETECTED", !.event = msg,
                            !.processed = TRUE,
                            !.recorded = IF validateDomainThrows(cleanDomain) THEN ""
                                         ELSE Clean[cleanDomain] \o "_zombie",
                            !.response = "success", !.responses = 1]
    /\ UNCHANGED <<isEnabled, blockedToday, cookiesDeleted, settings, performanceStats,
                   recentRequests, pendingRemoves, now>>

\* case 'ZOMBIE_COOKIE_DETECTED'
OnZombieCookieDetected(msg) ==
    /\ steps < MaxSteps
    /\ steps' = steps + 1
    /\ UNCHANGED <<probe, storage, saving>>
    /\ IF validateDomainThrows(msg.domain)
       THEN MessageFailed("ZOMBIE_COOKIE_DETECTED", msg,
                          "Failed to process zombie cookie detection")
       ELSE ZombieApplied(msg, Clean[msg.domain])

\* case 'SETTINGS_UPDATED'
OnSettingsUpdated(upd) ==
    /\ steps < MaxSteps
    /\ steps' = steps + 1
    /\ UNCHANGED <<probe, storage, saving>>
    /\ IF validateSettingsThrows(upd)
       THEN MessageFailed("SETTINGS_UPDATED", upd, "Invalid settings")
       ELSE /\ settings' = AssignSettings(settings, upd)
            /\ timers' = ArmSave(timers, TRUE)
            /\ out' = [NoOut EXCEPT !.kind = "SETTINGS_UPDATED", !.event = upd,
                                    !.processed = TRUE, !.response = "success",
                                    !.responses = 1]
            /\ UNCHANGED <<isEnabled, blockedToday, cookiesDeleted, detectedDomains,
                           performanceStats, recentRequests, pendingRemoves, now>>

\* case 'TOGGLE_ENABLED'
OnToggleEnabled ==
    /\ steps < MaxSteps
    /\ steps' = steps + 1
    /\ isEnabled' = ~isEnabled
    /\ out' = [NoOut EXCEPT !.kind = "TOGGLE_ENABLED", !.processed = TRUE,
                            !.responses = 1]
    /\ UNCHANGED <<blockedToday, cookiesDeleted, detectedDomains, settings,
                   performanceStats, recentRequests, timers, pendingRemoves, now, probe, storage, saving>>

(***************************************************************************)
(* exportBlocklist.  The entries of the export as a set: the domains are   *)
(* every non-empty key of the Map; their order (Array.prototype.sort) and  *)
(* the header lines are not represented.                                   *)
(***************************************************************************)
ExportFormats == {"pihole", "nextdns", "hosts", "adguard"}

ExportedDomains(reg) == { k \in Keys(reg) : Len(k) > 0 }

ExportEntry(format, domain) ==
    IF format = "hosts" THEN "0.0.0.0 " \o domain
    ELSE IF format = "adguard" THEN "||" \o domain \o "^"
    ELSE domain

exportBlocklist(reg, format) == { ExportEntry(format, domain) : domain \in ExportedDomains(reg) }

\* case 'EXPORT_BLOCKLIST'
OnExportBlocklist(format) ==
    /\ steps < MaxSteps
    /\ steps' = steps + 1
    /\ out' = [NoOut EXCEPT !.kind = "EXPORT_BLOCKLIST", !.event = [format |-> format],
                            !.processed = TRUE,
                            !.exported = exportBlocklist(detectedDomains, format),
                            !.responses = 1]
    /\ UNCHANGED <<isEnabled, blockedToday, cookiesDeleted, detectedDomains, settings,
                   performanceStats, recentRequests, timers, pendingRemoves, now, probe, storage, saving>>

(***************************************************************************)
(* The clock.                                                              *)
(***************************************************************************)
Tick ==
    /\ now < DedupWindowMs
    /\ now' = now + TickMs
    /\ UNCHANGED <<isEnabled, blockedToday, cookiesDeleted, detectedDomains, settings,
                   performanceStats, recentRequests, timers, pendingRemoves, steps,
                   out, probe, storage, saving>>

Next ==
    \/ \E url \in RequestUrls : OnBeforeRequest(url)
    \/ \E changeInfo \in CookieChanges : OnCookieChanged(changeInfo)
    \/ \E ok \in BOOLEAN : CookieRemoveSettled(ok)
    \/ \E msg \in DetectionMessages : OnGaDetected(msg)
    \/ \E msg \in ZombieMessages : OnZombieCookieDetected(msg)
    \/ \E upd \in SettingsUpdates : OnSettingsUpdated(upd)
    \/ OnToggleEnabled
    \/ \E format \in ExportFormats : OnExportBlocklist(format)
    \/ Tick

Spec == Init /\ [][Next]_vars

(***************************************************************************)
(* The resolver applied on its own: a host, a path and the two settings it *)
(* reads are drawn, and one step applies isKnownTrackingDomain and         *)
(* determineBlockingTarget to a request for that host and path.            *)
(***************************************************************************)
ResolverProbes ==
    [fn : {"determineBlockingTarget"}, host : ProbeHosts, path : ProbePaths,
     detectionSensitivity : {"low", "medium", "high"}, blockSelfHosted : BOOLEAN,
     done : {FALSE}, known : {FALSE}, info : {NoInfo}]

ProbeSettings(p) ==
    [DefaultSettings EXCEPT !.detectionSensitivity = p.detectionSensitivity,
                            !.blockSelfHosted = p.blockSelfHosted]

InitResolve == CoreInit /\ probe \in ResolverProbes /\ storage = EmptyStorage

ApplyResolver ==
    /\ probe.fn = "determineBlockingTarget"
    /\ ~probe.done
    /\ probe' = [probe EXCEPT
            !.done = TRUE,
            !.known = Known[probe.host],
            !.info = determineBlockingTarget(probe.host, "request",
                                             ProbeUrl(probe.host, probe.path),
                                             ProbeSettings(probe))]
    /\ UNCHANGED <<coreVars, storage, saving>>

NextResolve == ApplyResolver

SpecResolve == InitResolve /\ [][NextResolve]_vars

(***************************************************************************)
(* manageBlocklist applied on its own to a drawn registry: up to           *)
(* MaxHostsLimit + 1 entries in Map order, each with a lastSeen and a      *)
(* frequency, under a drawn maxHostsEntries and autoCleanup.               *)
(***************************************************************************)
EvictKeys == <<"google-analytics.com", "hotjar.com", "doubleclick.net",
               "2o7.net", "omtrdc.net", "demdex.net">>

EvictTimes == {100, 200, 300}

EvictDraws == UNION { [1..n -> EvictTimes \X {1, 2}] : n \in 0..(MaxHostsLimit + 1) }

EvictRecord(key, lastSeen, frequency) ==
    [key |-> key, firstSeen |-> IF frequency = 1 THEN lastSeen ELSE 100,
     lastSeen |-> lastSeen, frequency |-> frequency, gaTypes |-> <<"request">>,
     blocked |-> TRUE, details |-> <<"https://" \o key \o "/collect">>,
     hostDomain |-> key, isZombieCookie |-> FALSE]

EvictRegistry(f) == [i \in DOMAIN f |-> EvictRecord(EvictKeys[i], f[i][1], f[i][2])]

InitEvict ==
    /\ isEnabled = TRUE
    /\ blockedToday = 0
    /\ cookiesDeleted = 0
    /\ \E f \in EvictDraws : detectedDomains = EvictRegistry(f)
    /\ \E m \in MinHostsEntries..MaxHostsLimit, c \in BOOLEAN :
          settings = [DefaultSettings EXCEPT !.maxHostsEntries = m, !.autoCleanup = c]
    /\ performanceStats = [requestsProcessed |-> 0, requestsBlocked |-> 0]
    /\ recentRequests = {}
    /\ timers = [save |-> -1, cleanup |-> -1]
    /\ pendingRemoves = 0
    /\ now = 300
    /\ steps = 0
    /\ out = NoOut
    /\ saving = NotSaving
    /\ probe = [fn |-> "manageBlocklist", done |-> FALSE, before |-> <<>>]
    /\ storage = EmptyStorage

ApplyManageBlocklist ==
    /\ probe.fn = "manageBlocklist"
    /\ ~probe.done
    /\ detectedDomains' = manageBlocklist(detectedDomains, settings)
    /\ out' = [NoOut EXCEPT !.kind = "manageBlocklist", !.processed = TRUE,
                            !.evicted = toRemove(detectedDomains, settings),
                            !.suggested = suggestsExport(settings)]
    /\ probe' = [probe EXCEPT !.done = TRUE, !.before = detectedDomains]
    /\ UNCHANGED <<isEnabled, blockedToday, cookiesDeleted, settings, performanceStats,
                   recentRequests, timers, pendingRemoves, now, steps, storage, saving>>

NextEvict == ApplyManageBlocklist

SpecEvict == InitEvict /\ [][NextEvict]_vars

(***************************************************************************)
(* performScheduledCleanup applied on its own.  Times in this              *)
(* specification are in seconds, not milliseconds: 30 days in ms do not    *)
(* fit the integers of the model checker, and the code only compares and   *)
(* subtracts the timestamps.                                               *)
(***************************************************************************)
\* Most entries of a drawn registry.
SweepMaxEntries == 3

DayLength == 24 * 60 * 60

\* 30 * 24 * 60 * 60 * 1000 ms
RetentionPeriod == 30 * DayLength

\* Date.now() at the sweep.
SweepNow == 31 * DayLength

\* lastSeen values: 31 days ago, just before, at and just after the cutoff,
\* 29 days ago, and now.
SweepTimes ==
    { SweepNow - 31 * DayLength,
      SweepNow - RetentionPeriod - 1, SweepNow - RetentionPeriod,
      SweepNow - RetentionPeriod + 1,
      SweepNow - 29 * DayLength, SweepNow }

SweepDraws == UNION { [1..n -> SweepTimes] : n \in 0..SweepMaxEntries }

SweepRegistry(f) == [i \in DOMAIN f |-> EvictRecord(EvictKeys[i], f[i], 1)]

\* if (data.lastSeen < cutoff), kept also when lastSeen equals the cutoff.
expiredOrAtCutoff(data, cutoff) == data.lastSeen <= cutoff

\* if (data.lastSeen < cutoff)
expired(data, cutoff) == data.lastSeen < cutoff

\* The for-of loop over the Map with delete: every entry is visited once.
sweepExpired(reg, cutoff) == SelectSeq(reg, LAMBDA data : ~expired(data, cutoff))

performScheduledCleanup(reg, timestamp) == sweepExpired(reg, timestamp - RetentionPeriod)

InitSweep ==
    /\ isEnabled = TRUE
    /\ blockedToday = 0
    /\ cookiesDeleted = 0
    /\ \E f \in SweepDraws : detectedDomains = SweepRegistry(f)
    /\ \E c \in BOOLEAN : settings = [DefaultSettings EXCEPT !.autoCleanup = c]
    /\ performanceStats = [requestsProcessed |-> 0, requestsBlocked |-> 0]
    /\ recentRequests = {}
    /\ timers = [save |-> -1, cleanup |-> -1]
    /\ pendingRemoves = 0
    /\ now = SweepNow
    /\ steps = 0
    /\ out = NoOut
    /\ saving = NotSaving
    /\ probe = [fn |-> "performScheduledCleanup", done |-> FALSE, before |-> <<>>]
    /\ storage = EmptyStorage

\* removedCount > 0 arms the save timer.
ApplyScheduledCleanup ==
    /\ probe.fn = "performScheduledCleanup"
    /\ ~probe.done
    /\ detectedDomains' = performScheduledCleanup(detectedDomains, now)
    /\ timers' = ArmSave(timers, Len(performScheduledCleanup(detectedDomains, now))
                                    < Len(detectedDomains))
    /\ out' = [NoOut EXCEPT !.kind = "performScheduledCleanup", !.processed = TRUE]
    /\ probe' = [probe EXCEPT !.done = TRUE, !.before = detectedDomains]
    /\ UNCHANGED <<isEnabled, blockedToday, cookiesDeleted, settings, performanceStats,
                   recentRequests, pendingRemoves, now, steps, storage, saving>>

NextSweep == ApplyScheduledCleanup

SpecSweep == InitSweep /\ [][NextSweep]_vars

(***************************************************************************)
(* Persistence and the options page: saveData when the debounce timer      *)
(* fires, the start of the background script with loadStoredData, and the  *)
(* options page saving settings or clearing storage.local.                 *)
(***************************************************************************)
\* options.js DataValidator.validateSettings: the numeric limits of
\* validateSettings and the list of sensitivities.
DataValidatorThrows(upd) ==
    \/ validateSettingsThrows(upd)
    \/ /\ "detectionSensitivity" \in DOMAIN upd
       /\ upd.detectionSensitivity \notin {"low", "medium", "high"}

MaxRetries == 3
RetryDelayMs == 1000

\* dataToSave of saveData: the three keys as they are when saveData starts.
saveData(timestamp) ==
    [keys |-> {"detectedDomains", "settings", "statistics"},
     detectedDomains |-> detectedDomains,
     settings |-> settings,
     statistics |-> [blockedToday |-> blockedToday, cookiesDeleted |-> cookiesDeleted,
                     lastUpdated |-> timestamp]]

\* The debounce timer of debouncedSave fires and saveData runs up to its
\* await: it returns at once while pendingSave is set.
SaveTimerFires ==
    /\ timers.save # -1
    /\ timers' = [timers EXCEPT !.save = -1]
    /\ now' = (IF now < timers.save THEN timers.save ELSE now)
    /\ saving' = IF saving.pendingSave THEN saving
                 ELSE [pendingSave |-> TRUE, attempt |-> 1,
                       data |-> saveData(IF now < timers.save THEN timers.save ELSE now)]
    /\ UNCHANGED <<isEnabled, blockedToday, cookiesDeleted, detectedDomains, settings,
                   performanceStats, recentRequests, pendingRemoves, steps, out, probe,
                   storage>>

AttemptOutcomes == {"ok", "error", "timeout"}

\* withRetry that waits the same delay after every error.
SaveAttemptFixedDelay(outcome) ==
    /\ saving.pendingSave
    /\ saving.attempt \in 1..MaxRetries
    /\ storage' = IF outcome = "ok" THEN saving.data ELSE storage
    /\ saving' =
          IF outcome = "ok" THEN NotSaving
          ELSE IF outcome = "error" /\ saving.attempt < MaxRetries
          THEN [saving EXCEPT !.attempt = @ + 1]
          ELSE [saving EXCEPT !.attempt = MaxRetries + 1,
                              !.data = [storage EXCEPT
                                           !.keys = @ \cup {"statistics"},
                                           !.statistics =
                                               [blockedToday |-> blockedToday,
                                                cookiesDeleted |-> cookiesDeleted,
                                                lastUpdated |-> now]]]
    /\ now' = (IF outcome = "error" /\ saving.attempt < MaxRetries
               THEN now + RetryDelayMs ELSE now)
    /\ UNCHANGED <<isEnabled, blockedToday, cookiesDeleted, detectedDomains, settings,
                   performanceStats, recentRequests, timers, pendingRemoves, steps, out,
                   probe>>

\* One attempt of withRetry(() => storage.local.set(dataToSave)) settles, or
\* withTimeout gives up.  An error before the last attempt waits delay * attempt;
\* the last error and the timeout reach the catch, which writes the statistics.
SaveAttemptSettled(outcome) ==
    /\ saving.pendingSave
    /\ saving.attempt \in 1..MaxRetries
    /\ storage' = IF outcome = "ok" THEN saving.data ELSE storage
    /\ saving' =
          IF outcome = "ok" THEN NotSaving
          ELSE IF outcome = "error" /\ saving.attempt < MaxRetries
          THEN [saving EXCEPT !.attempt = @ + 1]
          ELSE [saving EXCEPT !.attempt = MaxRetries + 1,
                              !.data = [storage EXCEPT
                                           !.keys = @ \cup {"statistics"},
                                           !.statistics =
                                               [blockedToday |-> blockedToday,
                                                cookiesDeleted |-> cookiesDeleted,
                                                lastUpdated |-> now]]]
    /\ now' = (IF outcome = "error" /\ saving.attempt < MaxRetries
               THEN now + RetryDelayMs * saving.attempt ELSE now)
    /\ UNCHANGED <<isEnabled, blockedToday, cookiesDeleted, detectedDomains, settings,
                   performanceStats, recentRequests, timers, pendingRemoves, steps, out,
                   probe>>

\* The write of the statistics alone settles; finally clears pendingSave.
CriticalSaveSettled(ok) ==
    /\ saving.pendingSave
    /\ saving.attempt = MaxRetries + 1
    /\ storage' = IF ok THEN [storage EXCEPT !.keys = @ \cup {"statistics"},
                                             !.statistics = saving.data.statistics]
                  ELSE storage
    /\ saving' = NotSaving
    /\ UNCHANGED <<coreVars, probe>>

DayMs == 24 * 60 * 60 * 1000

\* loadStoredData: the three keys, each left at its default when absent or invalid.
loadStoredData(data, timestamp) ==
    [detectedDomains |->
        IF "detectedDomains" \in data.keys THEN data.detectedDomains ELSE <<>>,
     settings |->
        IF "settings" \in data.keys /\ ~validateSettingsThrows(data.settings)
        THEN AssignSettings(DefaultSettings, data.settings)
        ELSE DefaultSettings,
     warning |->
        IF "settings" \in data.keys /\ validateSettingsThrows(data.settings)
        THEN "Invalid settings found, using defaults" ELSE "",
     blockedToday |->
        IF "statistics" \notin data.keys THEN 0
        ELSE IF (timestamp - data.statistics.lastUpdated) \div DayMs >= 1 THEN 0
        ELSE data.statistics.blockedToday,
     cookiesDeleted |->
        IF "statistics" \in data.keys THEN data.statistics.cookiesDeleted ELSE 0]

\* The background script starts: constructor, then init with loadStoredData.
Startup ==
    /\ steps < MaxSteps
    /\ steps' = steps + 1
    /\ isEnabled' = TRUE
    /\ detectedDomains' = loadStoredData(storage, now).detectedDomains
    /\ settings' = loadStoredData(storage, now).settings
    /\ blockedToday' = loadStoredData(storage, now).blockedToday
    /\ cookiesDeleted' = loadStoredData(storage, now).cookiesDeleted
    /\ performanceStats' = [requestsProcessed |-> 0, requestsBlocked |-> 0]
    /\ recentRequests' = {}
    /\ timers' = [save |-> -1, cleanup |-> -1]
    /\ pendingRemoves' = 0
    /\ saving' = NotSaving
    /\ out' = [NoOut EXCEPT !.kind = "startup", !.processed = TRUE,
                            !.response = loadStoredData(storage, now).warning]
    /\ UNCHANGED <<now, probe, storage>>

\* options.js safeSaveSettings: validate, then storage.local.set({settings}).
OptionsSaveSettings(upd) ==
    /\ steps < MaxSteps
    /\ steps' = steps + 1
    /\ storage' = IF DataValidatorThrows(upd) THEN storage
                  ELSE [storage EXCEPT !.keys = @ \cup {"settings"}, !.settings = upd]
    /\ out' = [NoOut EXCEPT !.kind = "saveSettings", !.event = upd,
                            !.processed = ~DataValidatorThrows(upd),
                            !.response = IF DataValidatorThrows(upd)
                                         THEN "Failed to save settings"
                                         ELSE "Settings saved successfully"]
    /\ UNCHANGED <<optionsUnchanged, probe, saving>>

\* options.js safeClearAllData: storage.local.clear(); no message is sent.
OptionsClearAllData ==
    /\ steps < MaxSteps
    /\ steps' = steps + 1
    /\ storage' = EmptyStorage
    /\ out' = [NoOut EXCEPT !.kind = "clearAllData", !.processed = TRUE,
                            !.response = "All data cleared successfully"]
    /\ UNCHANGED <<optionsUnchanged, probe, saving>>

\* .sort((a, b) => b[1].lastSeen - a[1].lastSeen): most recent first, stable.
SortByLastSeenDesc(entries) ==
    [r \in 1..Len(entries) |->
        entries[CHOOSE i \in 1..Len(entries) :
                   Cardinality({ j \in 1..Len(entries) :
                                    \/ entries[j].lastSeen > entries[i].lastSeen
                                    \/ entries[j].lastSeen = entries[i].lastSeen /\ j < i })
                   = r - 1]]

RecentLimit == 10

\* getStats: the size and the keys of the ten most recent entries.
getStats(reg) ==
    [totalDomains |-> Len(reg),
     recentDomains |->
        [i \in 1..(IF Len(reg) < RecentLimit THEN Len(reg) ELSE RecentLimit) |->
            SortByLastSeenDesc(reg)[i].key]]

\* case 'GET_STATS'
OnGetStats ==
    /\ steps < MaxSteps
    /\ steps' = steps + 1
    /\ out' = [NoOut EXCEPT !.kind = "GET_STATS", !.processed = TRUE,
                            !.stats = getStats(detectedDomains), !.responses = 1]
    /\ UNCHANGED <<isEnabled, blockedToday, cookiesDeleted, detectedDomains, settings,
                   performanceStats, recentRequests, timers, pendingRemoves, now,
                   probe, storage, saving>>

LifecycleUrls == { "https://www.google-analytics.com/collect?v=1" }

NextLifecycle ==
    \/ \E url \in LifecycleUrls : OnBeforeRequest(url)
    \/ \E upd \in SettingsUpdates : OnSettingsUpdated(upd)
    \/ \E upd \in SettingsUpdates : OptionsSaveSettings(upd)
    \/ OptionsClearAllData
    \/ SaveTimerFires
    \/ SaveAttemptSettled("ok")
    \/ Startup
    \/ OnGetStats
    \/ OnExportBlocklist("pihole")

\* What storage.local holds when the background script is constructed: nothing,
\* or a settings object written earlier.
InitialStorage ==
    {EmptyStorage}
    \cup { [EmptyStorage EXCEPT !.keys = {"settings"}, !.settings = upd] :
              upd \in SettingsUpdates }

InitLifecycle == CoreInit /\ probe = NoProbe /\ storage \in InitialStorage

SpecLifecycle == InitLifecycle /\ [][NextLifecycle]_vars

(***************************************************************************)
(* Saving on its own: detections arm the debounce timer, the timer starts  *)
(* saveData, and the write settles some time later.  SpecSave lets each    *)
(* attempt fail; SpecSaveOk lets every write succeed and is fair to the    *)
(* timer and to the write, which the browser does run.                     *)
(***************************************************************************)
SaveUrls == { "https://www.google-analytics.com/collect?v=1" }

NextSave ==
    \/ \E url \in SaveUrls : OnBeforeRequest(url)
    \/ \E msg \in ZombieMessages : OnZombieCookieDetected(msg)
    \/ SaveTimerFires
    \/ \E outcome \in AttemptOutcomes : SaveAttemptSettled(outcome)
    \/ \E ok \in BOOLEAN : CriticalSaveSettled(ok)

SpecSave == Init /\ [][NextSave]_vars

NextSaveOk ==
    \/ \E url \in SaveUrls : OnBeforeRequest(url)
    \/ \E msg \in ZombieMessages : OnZombieCookieDetected(msg)
    \/ SaveTimerFires
    \/ SaveAttemptSettled("ok")

SpecSaveOk ==
    /\ Init
    /\ [][NextSaveOk]_vars
    /\ WF_vars(SaveTimerFires)
    /\ WF_vars(SaveAttemptSettled("ok"))

(***************************************************************************)
(* isTrackingCookie on its own: a name and a value are drawn, and the      *)
(* classifier is called twice with them.                                   *)
(***************************************************************************)
CookieNames ==
    { "_ga", "_gid", "_gat_UA1", "_gcl_au", "_fbp", "mbox", "_hjid", "_ttp",
      "sid", "_GA", "ga", "x_ga", "" }

CookieValues == { "", "GA1.2.123.456", "GA1.2.3", "abc", "fb.1.1.1" }

MaxCalls == 2

InitCookie ==
    /\ CoreInit
    /\ \E name \in CookieNames, value \in CookieValues :
          probe = [fn |-> "isTrackingCookie", name |-> name, value |-> value,
                   results |-> <<>>]
    /\ storage = EmptyStorage

ApplyIsTrackingCookie ==
    /\ probe.fn = "isTrackingCookie"
    /\ Len(probe.results) < MaxCalls
    /\ probe' = [probe EXCEPT
                    !.results = Append(@, isTrackingCookie(probe.name, probe.value))]
    /\ UNCHANGED <<coreVars, storage, saving>>

NextCookie == ApplyIsTrackingCookie

SpecCookie == InitCookie /\ [][NextCookie]_vars

(***************************************************************************)
(* The content script's scan of one inline script (content.js; the same    *)
(* control flow is in content-backup.js).  A script pattern is a literal   *)
(* with what the regex asks around it: kind "lit" the literal alone,       *)
(* "nocase" the literal under the i flag, "call" the literal followed by   *)
(* \s*\( (and preceded by \b when boundary), "word" the literal followed   *)
(* by \w.                                                                  *)
(***************************************************************************)
WordChars ==
    { Upper[i] : i \in 1..26 } \cup { Lower[i] : i \in 1..26 } \cup Digits \cup {"_"}

Whitespace == {" ", "\t", "\n"}

At(s, i) == IF i >= 1 /\ i <= Len(s) THEN SubSeq(s, i, i) ELSE ""

ScriptPat(kind, lit, boundary) == [kind |-> kind, lit |-> lit, boundary |-> boundary]

ScriptPatternTest(p, content) ==
    IF p.kind = "lit" THEN Includes(content, p.lit)
    ELSE IF p.kind = "nocase" THEN Includes(ToLowerCase(content), p.lit)
    ELSE \E i \in 1..(Len(content) - Len(p.lit) + 1) :
            /\ SubSeq(content, i, i + Len(p.lit) - 1) = p.lit
            /\ p.boundary => At(content, i - 1) \notin WordChars
            /\ IF p.kind = "word" THEN At(content, i + Len(p.lit)) \in WordChars
               ELSE \E j \in (i + Len(p.lit))..Len(content) :
                       /\ At(content, j) = "("
                       /\ \A k \in (i + Len(p.lit))..(j - 1) : At(content, k) \in Whitespace

FamilyNames == <<"Google Analytics", "Facebook", "Adobe", "Session Recording", "TikTok">>

COMPILED_PATTERNS ==
    [n \in 1..5 |->
       IF n = 1
       THEN { ScriptPat("call", "gtag", TRUE), ScriptPat("call", "ga", TRUE),
              ScriptPat("call", "dataLayer.push", FALSE),
              ScriptPat("lit", "google_tag_manager", FALSE),
              ScriptPat("lit", "GoogleAnalyticsObject", FALSE),
              ScriptPat("lit", "_gaq.push", FALSE), ScriptPat("lit", "gtm.start", FALSE) }
       ELSE IF n = 2
       THEN { ScriptPat("call", "fbq", TRUE), ScriptPat("lit", "facebook.trackEvent", FALSE),
              ScriptPat("lit", "_fbq.push", FALSE),
              ScriptPat("lit", "FB.Event.subscribe", FALSE) }
       ELSE IF n = 3
       THEN { ScriptPat("call", "s.t", TRUE), ScriptPat("call", "s.tl", TRUE),
              ScriptPat("lit", "adobe_mc_", FALSE), ScriptPat("lit", "AppMeasurement", FALSE),
              ScriptPat("nocase", "omniture", FALSE) }
       ELSE IF n = 4
       THEN { ScriptPat("call", "hj", TRUE), ScriptPat("lit", "FS.identify", FALSE),
              ScriptPat("lit", "LogRocket.identify", FALSE),
              ScriptPat("word", "_lr_", FALSE), ScriptPat("lit", "smartlook(", FALSE),
              ScriptPat("lit", "mouseflow(", FALSE) }
       ELSE { ScriptPat("lit", "ttq.track", FALSE), ScriptPat("lit", "ttq.page", FALSE),
              ScriptPat("lit", "tiktok_pixel", FALSE) }]

\* The families with a pattern that matches; the loop reports the first.
matchedFamilies(content) ==
    { n \in 1..5 : \E p \in COMPILED_PATTERNS[n] : ScriptPatternTest(p, content) }

\* safeReport's message: targetDomain || this.domain.
Report(method, details, targetDomain, domain) ==
    [method |-> method, details |-> details,
     domain |-> IF targetDomain = "" THEN domain ELSE targetDomain]

\* content.match(/GTM-[A-Z0-9]{4,8}/): the first match, or "".
GtmChars == { Upper[i] : i \in 1..26 } \cup Digits

GtmAt(content, i) ==
    /\ SubSeq(content, i, i + 3) = "GTM-"
    /\ \A k \in (i + 4)..(i + 7) : At(content, k) \in GtmChars

gtmMatches(content) ==
    IF \E i \in 1..(Len(content) - 7) : GtmAt(content, i)
    THEN LET i == CHOOSE i \in 1..(Len(content) - 7) :
                     GtmAt(content, i) /\ \A j \in 1..(i - 1) : ~GtmAt(content, j)
             n == CHOOSE n \in 4..8 :
                     /\ \A k \in (i + 4)..(i + 3 + n) : At(content, k) \in GtmChars
                     /\ n = 8 \/ At(content, i + 4 + n) \notin GtmChars
         IN  SubSeq(content, i, i + 3 + n)
    ELSE ""

\* content.match(/https?:\/\/([^\/\s"']+)/g): every match, left to right.
UrlStop == Whitespace \cup {"/", "\"", "'"}

SchemeAt(s, i) ==
    IF i + 7 <= Len(s) /\ SubSeq(s, i, i + 7) = "https://" THEN 8
    ELSE IF i + 6 <= Len(s) /\ SubSeq(s, i, i + 6) = "http://" THEN 7
    ELSE 0

UrlAt(s, i) ==
    i + SchemeAt(s, i) <= Len(s) /\ SchemeAt(s, i) > 0
    /\ At(s, i + SchemeAt(s, i)) \notin UrlStop

RECURSIVE urlMatches(_)
urlMatches(s) ==
    IF \E i \in 1..Len(s) : UrlAt(s, i)
    THEN LET i == CHOOSE i \in 1..Len(s) : UrlAt(s, i) /\ \A j \in 1..(i - 1) : ~UrlAt(s, j)
             from == i + SchemeAt(s, i)
             rest == SubSeq(s, from, Len(s))
             last == from + FirstOf(rest, UrlStop) - 2
         IN  <<SubSeq(s, i, last)>> \o urlMatches(SubSeq(s, last + 1, Len(s)))
    ELSE <<>>

\* new URL(url).hostname, else the regex fallback, else this.domain.
safeExtractTrackingDomain(url, domain) ==
    IF Len(url) = 0 THEN domain
    ELSE IF UrlParses(url) THEN UrlHostname(url)
    ELSE IF Len(UrlRest(url)) > 0
    THEN SubSeq(UrlRest(url), 1, FirstOf(UrlRest(url), {"/"}) - 1)
    ELSE domain

safeDetectMeasurementProtocol(content, domain) ==
    LET matches == urlMatches(content)
    IN  IF Len(matches) > 0
        THEN IF \E k \in 1..Len(matches) : Includes(matches[k], "collect")
             THEN LET collectUrl ==
                        matches[CHOOSE k \in 1..Len(matches) :
                                   /\ Includes(matches[k], "collect")
                                   /\ \A j \in 1..(k - 1) : ~Includes(matches[j], "collect")]
                  IN  <<Report("measurement", "Measurement protocol: " \o collectUrl,
                               safeExtractTrackingDomain(collectUrl, domain), domain)>>
             ELSE <<>>
        ELSE <<Report("measurement", "Self-hosted measurement protocol", domain, domain)>>

\* A scan that reports the last matching family of the list, not the first.
safeScanInlineScriptLastFamily(content, location, domain) ==
    IF Len(content) = 0 THEN <<>>
    ELSE IF matchedFamilies(content) # {}
    THEN <<Report("javascript",
                  FamilyNames[CHOOSE n \in matchedFamilies(content) :
                                 \A m \in matchedFamilies(content) : n >= m]
                     \o " in " \o location,
                  domain, domain)>>
    ELSE <<>>

\* The reports of safeScanInlineScript, in the order they are sent.
safeScanInlineScript(content, location, domain) ==
    IF Len(content) = 0 THEN <<>>
    ELSE IF matchedFamilies(content) # {}
    THEN <<Report("javascript",
                  FamilyNames[CHOOSE n \in matchedFamilies(content) :
                                 \A m \in matchedFamilies(content) : n <= m]
                     \o " in " \o location,
                  domain, domain)>>
    ELSE (IF gtmMatches(content) # ""
          THEN <<Report("gtm", "Container: " \o gtmMatches(content), domain, domain)>>
          ELSE <<>>)
         \o
         (IF Includes(content, "/collect") \/ Includes(content, "/mp/collect")
          THEN safeDetectMeasurementProtocol(content, domain)
          ELSE <<>>)

\* The inline scripts scanned: a tracker call, a container id, a collect endpoint.
ScriptCalls ==
    { "", "gtag('config','G-1');", "fbq ('track');", "tagged('x');",
      "fbq('track');gtag('js');ga('send');", "ttq.track(1);hj('x');s.t();" }

ScriptContainers == { "", "id='GTM-ABCD12';", "id='GTM-abcd';", "id='GTM-AB1';" }

ScriptEndpoints ==
    { "", "send('/collect');", "send('/mp/collect');",
      "send('https://www.google-analytics.com/collect');",
      "send('https://collect.example/x');",
      "send('http://stats.example/mp/collect?v=2');" }

PageDomains == { "news.example", "shop.example" }

InitScan ==
    /\ CoreInit
    /\ \E call \in ScriptCalls, id \in ScriptContainers, endpoint \in ScriptEndpoints,
          domain \in PageDomains :
          probe = [fn |-> "safeScanInlineScript", content |-> call \o id \o endpoint,
                   domain |-> domain, done |-> FALSE, reports |-> <<>>]
    /\ storage = EmptyStorage

ApplyScanInlineScript ==
    /\ probe.fn = "safeScanInlineScript"
    /\ ~probe.done
    /\ probe' = [probe EXCEPT
                    !.done = TRUE,
                    !.reports = safeScanInlineScript(probe.content, "document", probe.domain)]
    /\ UNCHANGED <<coreVars, storage, saving>>

NextScan == ApplyScanInlineScript

SpecScan == InitScan /\ [][NextScan]_vars

(***************************************************************************)
(* safeScanTextContent on its own.  A text is a sequence of characters;    *)
(* the sizes 5000 (sample), 15000 (page scripts) and 5000 (dynamically     *)
(* added scripts) are scaled to SampleChars, PageMaxSize, DynamicMaxSize.  *)
(***************************************************************************)
SampleChars == 2
PageMaxSize == 6
DynamicMaxSize == 2
MaxScriptLength == 8

\* content.slice(0, n) and content.slice(-n)
SliceHead(content, n) == SubSeq(content, 1, IF n < Len(content) THEN n ELSE Len(content))

SliceTail(content, n) ==
    SubSeq(content, IF Len(content) - n + 1 < 1 THEN 1 ELSE Len(content) - n + 1,
           Len(content))

\* The text handed to the scan; <<>> stands for null (nothing is scanned).
safeScanTextContent(content, maxSize) ==
    IF Len(content) = 0 THEN <<>>
    ELSE IF Len(content) > maxSize
    THEN SliceHead(content, SampleChars) \o SliceTail(content, SampleChars)
    ELSE content

ScriptTexts == UNION { [1..n -> {"a", "b"}] : n \in 0..MaxScriptLength }

InitText ==
    /\ CoreInit
    /\ \E content \in ScriptTexts, maxSize \in {PageMaxSize, DynamicMaxSize} :
          probe = [fn |-> "safeScanTextContent", content |-> content,
                   maxSize |-> maxSize, done |-> FALSE, scanned |-> <<>>]
    /\ storage = EmptyStorage

ApplyScanTextContent ==
    /\ probe.fn = "safeScanTextContent"
    /\ ~probe.done
    /\ probe' = [probe EXCEPT
                    !.done = TRUE,
                    !.scanned = safeScanTextContent(probe.content, probe.maxSize)]
    /\ UNCHANGED <<coreVars, storage, saving>>

NextText == ApplyScanTextContent

SpecText == InitText /\ [][NextText]_vars

(***************************************************************************)
(* Properties.                                                             *)
(***************************************************************************)
Records(reg) == { reg[i] : i \in 1..Len(reg) }

\* d equals, or is a dot-separated subdomain of, a member of the set S.
InOrUnder(d, S) == \E t \in S : d = t \/ EndsWith(d, "." \o t)

\* The registry key of a detection on the given raw domain.
KeyOfDomain(domain) == StripLeadingDot(Clean[domain])

\* C1: every entry of an export, in each of the four formats, is a domain
\* that equals or is a dot-subdomain of a third-party tracker domain and
\* carries no "_zombie" suffix.
C1_ExportOnlyThirdParty ==
    out.kind = "EXPORT_BLOCKLIST" =>
        \A entry \in out.exported :
            \E domain \in Keys(detectedDomains) :
                /\ entry = ExportEntry(out.event.format, domain)
                /\ InOrUnder(domain, THIRD_PARTY_TRACKING_DOMAINS)
                /\ ~EndsWith(domain, "_zombie")

\* C2: handleTrackerDetection records a key only when the resolver returned
\* addToBlocklist = TRUE, and every ordinary (non-zombie) registry key equals
\* or is a dot-subdomain of a third-party tracker domain.
C2_OrdinaryKeysThirdParty ==
    /\ (out.kind \in {"request", "cookie", "GA_DETECTED"} /\ out.recorded # "")
          => out.info.addToBlocklist
    /\ \A r \in Records(detectedDomains) :
          ~r.isZombieCookie => InOrUnder(r.key, THIRD_PARTY_TRACKING_DOMAINS)

\* A self-hosted request was blocked in the browser and left no key behind,
\* while the registry holds an ordinary key.
C2_Witness ==
    /\ out.kind = "request"
    /\ out.cancel
    /\ out.info.blockingMethod = "browser_only"
    /\ out.recorded = ""
    /\ \E r \in Records(detectedDomains) : ~r.isZombieCookie
    /\ "news.example" \notin Keys(detectedDomains)

\* C3: the registry never holds more than settings.maxHostsEntries entries.
C3_SizeBounded == Len(detectedDomains) <= settings.maxHostsEntries

\* C4: eviction on a registry of n > maxHostsEntries entries deletes exactly
\* n - maxHostsEntries of them, each deleted entry is at most as recent
\* (lastSeen) as each retained one whatever the frequencies, the retained
\* entries are untouched and keep their order, the size afterwards is at most
\* maxHostsEntries; and of three entries last seen at 100, 200 and 300 under
\* maxHostsEntries = 2 exactly the first is removed.
C4_EvictsOldest ==
    (/\ probe.fn = "manageBlocklist"
     /\ probe.done
     /\ settings.autoCleanup
     /\ Len(probe.before) > settings.maxHostsEntries)
    =>
    /\ Len(detectedDomains) <= settings.maxHostsEntries
    /\ Records(detectedDomains) \subseteq Records(probe.before)
    /\ Cardinality(Records(probe.before) \ Records(detectedDomains))
          = Len(probe.before) - settings.maxHostsEntries
    /\ \A d \in Records(probe.before) \ Records(detectedDomains) :
          \A r \in Records(detectedDomains) : d.lastSeen <= r.lastSeen
    /\ detectedDomains = SelectSeq(probe.before,
                                   LAMBDA e : e \in Records(detectedDomains))
    /\ (/\ Len(probe.before) = 3
        /\ [i \in 1..3 |-> probe.before[i].lastSeen] = <<100, 200, 300>>
        /\ settings.maxHostsEntries = 2)
          => Keys(detectedDomains) = {EvictKeys[2], EvictKeys[3]}

\* Three entries last seen at 100, 200, 300, the oldest the most frequent,
\* under maxHostsEntries = 2: the first one is gone, the other two remain.
C4_Witness ==
    /\ probe.fn = "manageBlocklist"
    /\ probe.done
    /\ settings.autoCleanup
    /\ settings.maxHostsEntries = 2
    /\ Len(probe.before) = 3
    /\ [i \in 1..3 |-> probe.before[i].lastSeen] = <<100, 200, 300>>
    /\ probe.before[1].frequency = 2
    /\ probe.before[2].frequency = 1
    /\ Keys(detectedDomains) = {EvictKeys[2], EvictKeys[3]}

\* Some record of the registry after the step is new or changed, or the
\* record the handler wrote was deleted again by its own eviction.
RecordWritten ==
    \/ \E r \in Records(detectedDomains') : r \notin Records(detectedDomains)
    \/ (out'.recorded # "" /\ out'.recorded \in out'.evicted)

\* C5: a request the listener processes (extension enabled, not suppressed by
\* deduplication) is cancelled iff it matched and the resolver returned
\* shouldBlock, a registry record is created or updated iff it matched and
\* the resolver returned addToBlocklist, and blockedToday grows by exactly
\* one iff the request is cancelled.
C5_RequestDecisionApplied ==
    [][ (out'.kind = "request" /\ steps' = steps + 1 /\ out'.processed) =>
          /\ out'.matched = (/\ Parses[out'.event.url]
                             /\ \/ Known[Hostname[out'.event.url]]
                                \/ Tracking[out'.event.url])
          /\ out'.matched =>
                out'.info = determineBlockingTarget(Hostname[out'.event.url], "request",
                                                    out'.event.url, settings)
          /\ out'.cancel = (out'.matched /\ out'.info.shouldBlock)
          /\ RecordWritten = (out'.matched /\ out'.info.addToBlocklist)
          /\ blockedToday' = blockedToday + (IF out'.cancel THEN 1 ELSE 0)
      ]_vars

\* A matched request was cancelled and counted without a registry record.
C5_Witness ==
    /\ out.kind = "request"
    /\ out.processed
    /\ out.matched
    /\ out.cancel
    /\ ~out.info.addToBlocklist
    /\ blockedToday = 1
    /\ detectedDomains = <<>>

\* C6: for every host in the known tracking domain set (the exact domains
\* and the suffixes) or a dot-subdomain of a member, isKnownTrackingDomain is
\* true and the resolver returns shouldBlock, addToBlocklist and
\* 'network_level' for a request to it, under every detectionSensitivity and
\* blockSelfHosted.
C6_KnownDomainsNetworkLevel ==
    (/\ probe.fn = "determineBlockingTarget"
     /\ probe.done
     /\ InOrUnder(probe.host, KNOWN_TRACKING_DOMAINS \cup TRACKING_DOMAIN_SUFFIXES))
    =>
    /\ probe.known
    /\ probe.info.shouldBlock
    /\ probe.info.addToBlocklist
    /\ probe.info.blockingMethod = "network_level"

\* The path carries one of the self-hosting signatures.
SelfHostedPath(path) == \E sig \in SELF_HOSTED_PATTERNS : Includes(path, sig)

\* C7 as stated: on a self-hosted path of a host that is not a known tracking
\* domain the resolver returns addToBlocklist = FALSE when blockSelfHosted,
\* and shouldBlock = FALSE when detectionSensitivity = 'low'.
C7_AsStated ==
    (/\ probe.fn = "determineBlockingTarget"
     /\ probe.done
     /\ SelfHostedPath(probe.path)
     /\ ~Known[probe.host])
    =>
    /\ probe.blockSelfHosted => ~probe.info.addToBlocklist
    /\ probe.detectionSensitivity = "low" => ~probe.info.shouldBlock

\* C7: on a self-hosted path of a host that is not a known tracking domain
\* the resolver returns shouldBlock = TRUE, addToBlocklist = FALSE,
\* 'browser_only' when blockSelfHosted, whatever the sensitivity; it returns
\* shouldBlock = FALSE when detectionSensitivity = 'low' and blockSelfHosted
\* is off.
C7_SelfHostedBrowserOnly ==
    (/\ probe.fn = "determineBlockingTarget"
     /\ probe.done
     /\ SelfHostedPath(probe.path)
     /\ ~Known[probe.host])
    =>
    /\ probe.blockSelfHosted =>
          /\ probe.info.shouldBlock
          /\ ~probe.info.addToBlocklist
          /\ probe.info.blockingMethod = "browser_only"
    /\ (probe.detectionSensitivity = "low" /\ ~probe.blockSelfHosted) =>
          /\ ~probe.info.shouldBlock
          /\ ~probe.info.addToBlocklist
          /\ probe.info.blockingMethod = "none"

\* A self-hosted gtm.js under low sensitivity with blockSelfHosted on: blocked.
C7_Witness ==
    /\ probe.fn = "determineBlockingTarget"
    /\ probe.done
    /\ probe.host = "news.example"
    /\ probe.path = "/gtm.js"
    /\ probe.detectionSensitivity = "low"
    /\ probe.blockSelfHosted
    /\ probe.info.shouldBlock
    /\ ~probe.info.addToBlocklist

\* C8: a cookie-creation event with a tracking cookie name, received while
\* enabled, has deleteCookie invoked whatever the resolver decided; a
\* cookie-removal event changes neither the registry nor the pending
\* removals and invokes neither detection nor deletion.
C8_TrackingCookieDeleted ==
    [][ (out'.kind = "cookie" /\ steps' = steps + 1) =>
          /\ (/\ ~out'.event.removed
              /\ isEnabled
              /\ TrackingCookie[out'.event.cookie])
                => /\ out'.deleteCookie
                   /\ Len(out'.event.cookie.domain) > 0 =>
                         pendingRemoves' = pendingRemoves + 1
          /\ out'.event.removed =>
                /\ ~out'.deleteCookie
                /\ ~out'.processed
                /\ out'.recorded = ""
                /\ detectedDomains' = detectedDomains
                /\ pendingRemoves' = pendingRemoves
      ]_vars

\* A tracking cookie of a first-party domain under low sensitivity: the
\* resolver decided not to block, the cookie is deleted all the same.
C8_Witness ==
    /\ out.kind = "cookie"
    /\ ~out.event.removed
    /\ out.event.cookie.domain = "news.example"
    /\ out.info.blockingMethod = "none"
    /\ ~out.info.shouldBlock
    /\ out.deleteCookie
    /\ pendingRemoves = 1

CookieRecordWritten(key) ==
    \/ /\ HasKey(detectedDomains', key)
       /\ SeqIncludes(Get(detectedDomains', key).gaTypes, "cookie")
       /\ Get(detectedDomains', key).lastSeen = now
       /\ Get(detectedDomains', key).frequency =
             IF HasKey(detectedDomains, key)
             THEN Get(detectedDomains, key).frequency + 1 ELSE 1
    \/ /\ key \in out'.evicted
       /\ ~HasKey(detectedDomains', key)

C10_DuplicateNotReprocessed ==
    [][ (/\ out'.kind = "request"
         /\ steps' = steps + 1
         /\ \E r \in recentRequests :
               r.url = out'.event.url /\ now - r.at < 1000)
        =>
        /\ detectedDomains' = detectedDomains
        /\ blockedToday' = blockedToday
        /\ performanceStats' = performanceStats
        /\ recentRequests' = recentRequests
        /\ ~out'.processed
        /\ ~out'.cancel
      ]_vars

\* A blocked URL asked for again 500 ms later, while enabled: not processed.
C10_Witness ==
    /\ out.kind = "request"
    /\ ~out.processed
    /\ isEnabled
    /\ now = TickMs
    /\ [url |-> out.event.url, at |-> 0] \in recentRequests
    /\ blockedToday = 1
    /\ performanceStats.requestsProcessed = 1

\* C11: a request whose URL does not parse is handled to the end without
\* being cancelled, recorded or counted as blocked, the listener stays in
\* place, and a request handled after such a failure is cancelled exactly
\* when it matches and the resolver says shouldBlock.
C11_RequestFailsOpen ==
    [][ (out'.kind = "request" /\ steps' = steps + 1 /\ out'.processed) =>
          /\ ~Parses[out'.event.url] =>
                /\ ~out'.cancel
                /\ ~out'.matched
                /\ detectedDomains' = detectedDomains
                /\ blockedToday' = blockedToday
                /\ isEnabled' = isEnabled
                /\ performanceStats' =
                      [performanceStats EXCEPT !.requestsProcessed = @ + 1]
          /\ (\E r \in recentRequests : ~Parses[r.url]) =>
                out'.cancel =
                   (/\ Parses[out'.event.url]
                    /\ Known[Hostname[out'.event.url]] \/ Tracking[out'.event.url]
                    /\ determineBlockingTarget(Hostname[out'.event.url], "request",
                                               out'.event.url, settings).shouldBlock)
      ]_vars

\* An unparseable URL went through, and a later tracking request was cancelled.
C11_Witness ==
    /\ out.kind = "request"
    /\ out.cancel
    /\ Parses[out.event.url]
    /\ \E r \in recentRequests : ~Parses[r.url]
    /\ performanceStats.requestsProcessed = 2
    /\ performanceStats.requestsBlocked = 1

\* C12: the age sweep keeps, in their order and untouched, exactly the
\* entries whose lastSeen is not earlier than now - 30 days (2592000 s) and
\* deletes the others, whatever the registry size and the settings: an entry
\* last seen 31 days ago is gone, one last seen 29 days ago is kept.
C12_SweepDeletesOlderThan30Days ==
    (probe.fn = "performScheduledCleanup" /\ probe.done) =>
        /\ detectedDomains =
              SelectSeq(probe.before, LAMBDA e : e.lastSeen >= now - 2592000)
        /\ \A e \in Records(probe.before) :
              /\ e.lastSeen = now - 31 * 86400 => e \notin Records(detectedDomains)
              /\ e.lastSeen = now - 29 * 86400 => e \in Records(detectedDomains)

\* Three entries, more than maxHostsEntries: last seen 31 days ago, exactly
\* 30 days ago and 29 days ago; only the first is gone.
C12_Witness ==
    /\ probe.fn = "performScheduledCleanup"
    /\ probe.done
    /\ Len(probe.before) = 3
    /\ Len(probe.before) > settings.maxHostsEntries
    /\ probe.before[1].lastSeen = now - 31 * 86400
    /\ probe.before[2].lastSeen = now - 30 * 86400
    /\ probe.before[3].lastSeen = now - 29 * 86400
    /\ Keys(detectedDomains) = {EvictKeys[2], EvictKeys[3]}

\* C13: a settings load or a SETTINGS_UPDATED message that carries a
\* maxHostsEntries outside the limits or an autoExportThreshold under the
\* minimum is rejected (an error response to the message, a warning at load)
\* and every field of the current settings stays what it was: at load, the
\* defaults the constructor set.
C13_OutOfRange(upd) ==
    \/ /\ "maxHostsEntries" \in DOMAIN upd
       /\ upd.maxHostsEntries \notin MinHostsEntries..MaxHostsLimit
    \/ /\ "autoExportThreshold" \in DOMAIN upd
       /\ upd.autoExportThreshold < MinExportThreshold

C13_InvalidSettingsRejected ==
    [][ /\ (out'.kind = "SETTINGS_UPDATED" /\ steps' = steps + 1
            /\ C13_OutOfRange(out'.event)) =>
               /\ out'.response = "Invalid settings"
               /\ settings' = settings
        /\ (out'.kind = "startup" /\ steps' = steps + 1
            /\ "settings" \in storage.keys /\ C13_OutOfRange(storage.settings)) =>
               /\ out'.response = "Invalid settings found, using defaults"
               /\ settings' = DefaultSettings
      ]_vars

C13_Witness ==
    /\ out.kind = "startup"
    /\ out.response = "Invalid settings found, using defaults"
    /\ "maxHostsEntries" \in DOMAIN storage.settings
    /\ storage.settings.maxHostsEntries = MaxHostsLimit
    /\ settings.maxHostsEntries = DefaultMaxHostsEntries
    /\ settings = DefaultSettings

\* C14: in every reachable state settings.autoExportThreshold is strictly
\* less than settings.maxHostsEntries.
C14_ThresholdBelowMax ==
    settings.autoExportThreshold < settings.maxHostsEntries

\* C16: when the options page's "clear all data" has completed, no detection
\* record is left in storage, in the statistics the background answers
\* GET_STATS with, or in what the background exports.
C16_ClearDestroysRecords ==
    [][ (out'.kind = "clearAllData" /\ steps' = steps + 1) =>
           /\ storage'.detectedDomains = <<>>
           /\ getStats(detectedDomains').totalDomains = 0
           /\ getStats(detectedDomains').recentDomains = <<>>
           /\ exportBlocklist(detectedDomains', "pihole") = {}
      ]_vars

\* C15: whenever handleTrackerDetection records a detection and the registry
\* has reached settings.autoExportThreshold entries, EXPORT_SUGGESTED is sent,
\* whatever the valid settings are.
C15_ExportSuggestedAtThreshold ==
    [][ (/\ steps' = steps + 1
         /\ out'.kind \in {"request", "cookie", "GA_DETECTED"}
         /\ out'.recorded # ""
         /\ Len(detectedDomains') + Cardinality(out'.evicted)
               >= settings.autoExportThreshold) =>
           out'.suggested
      ]_vars

\* The case of C17: a GA_DETECTED message with method 'javascript' for a host
\* that is not a third-party tracking domain, handled under medium or high
\* sensitivity.
C17_InlineDetection ==
    /\ steps' = steps + 1
    /\ out'.kind = "GA_DETECTED"
    /\ out'.processed
    /\ out'.event.method = "javascript"
    /\ ~ThirdParty[Clean[out'.event.domain]]
    /\ settings.detectionSensitivity \in {"medium", "high"}

\* C17: such a detection resolves to shouldBlock = TRUE and
\* addToBlocklist = FALSE, creates no registry key, and changes a statistics
\* counter.
C17_AsStated ==
    [][ C17_InlineDetection =>
           /\ out'.info.shouldBlock
           /\ ~out'.info.addToBlocklist
           /\ Keys(detectedDomains') \subseteq Keys(detectedDomains)
           /\ \/ blockedToday' # blockedToday
              \/ cookiesDeleted' # cookiesDeleted
              \/ performanceStats' # performanceStats
      ]_vars

\* The cookie-name patterns of all families.
CookieNamePatterns ==
    GA_COOKIE_PATTERNS \cup GTM_COOKIE_PATTERNS \cup FACEBOOK_COOKIE_PATTERNS
    \cup ADOBE_COOKIE_PATTERNS \cup SESSION_RECORDING_COOKIE_PATTERNS
    \cup TIKTOK_COOKIE_PATTERNS

ReportedMethods == { probe.reports[i].method : i \in 1..Len(probe.reports) }

\* C19: the scan of an inline script checks for a GTM container id and for
\* the measurement protocol whether or not a tracker family matched: a script
\* that matches a family and contains a GTM-XXXX id yields the family
\* detection and the 'gtm' detection.
C19_GtmCheckedIndependently ==
    (/\ probe.fn = "safeScanInlineScript"
     /\ probe.done
     /\ gtmMatches(probe.content) # "")
    =>
    /\ "gtm" \in ReportedMethods
    /\ matchedFamilies(probe.content) # {} => "javascript" \in ReportedMethods

\* The hosts of the URLs in the text that contain 'collect'.
CollectHosts ==
    { UrlHostname(u) : u \in { "https://www.google-analytics.com/collect",
                               "https://collect.example/x",
                               "http://stats.example/mp/collect?v=2" }
                             \cap { SubSeq(probe.content, i, j) :
                                       i, j \in 1..Len(probe.content) } }

\* C20: a script text that contains '/collect' or '/mp/collect' always
\* yields a 'measurement' detection, for the host of a URL of the text that
\* contains 'collect' or, when the text has no such URL, for the page with
\* the details 'Self-hosted measurement protocol'.
C20_MeasurementAlwaysReported ==
    (/\ probe.fn = "safeScanInlineScript"
     /\ probe.done
     /\ Includes(probe.content, "/collect") \/ Includes(probe.content, "/mp/collect"))
    =>
    \E i \in 1..Len(probe.reports) :
       /\ probe.reports[i].method = "measurement"
       /\ IF CollectHosts # {}
          THEN probe.reports[i].domain \in CollectHosts
          ELSE /\ probe.reports[i].domain = probe.domain
               /\ probe.reports[i].details = "Self-hosted measurement protocol"

\* C21: the text scanned is never longer than the input and never longer
\* than twice the sample (10,000 characters), under the ceiling of page
\* scripts and under the ceiling of dynamically added scripts.
C21_ScannedTextCapped ==
    (probe.fn = "safeScanTextContent" /\ probe.done) =>
       /\ Len(probe.scanned) <= Len(probe.content)
       /\ Len(probe.scanned) <= 2 * SampleChars

\* C22: every registry mutation schedules a save and, when the writes
\* succeed and no further mutation follows, storage eventually holds the
\* registry with that mutation, also when the mutation happened while an
\* earlier save was in flight.
C22_MutationEventuallySaved ==
    <>[](storage.detectedDomains = detectedDomains)

\* C28: a step of a save under way (an attempt that fails or succeeds, the
\* fallback write) leaves the registry, the settings, the counters and the
\* handlers' results as they are; a failed attempt before the last is
\* followed by the next attempt after RetryDelayMs times its number, never
\* more than MaxRetries attempts; the fallback write, whatever its outcome,
\* ends with pendingSave false; and a timer that fires while pendingSave is
\* false starts a new save.
C28_WriteFailureContained ==
    [][ /\ (saving.pendingSave /\ saving' # saving /\ steps' = steps) =>
              /\ detectedDomains' = detectedDomains
              /\ settings' = settings
              /\ blockedToday' = blockedToday
              /\ cookiesDeleted' = cookiesDeleted
              /\ isEnabled' = isEnabled
              /\ out' = out
              /\ saving'.attempt <= MaxRetries + 1
              /\ (saving'.pendingSave /\ saving'.attempt <= MaxRetries) =>
                    /\ storage' = storage
                    /\ saving'.attempt = saving.attempt + 1
                    /\ now' = now + RetryDelayMs * saving.attempt
              /\ saving.attempt = MaxRetries + 1 => ~saving'.pendingSave
        /\ (~saving.pendingSave /\ timers.save # -1 /\ timers'.save = -1
            /\ steps' = steps) =>
              /\ saving'.pendingSave
              /\ saving'.data.detectedDomains = detectedDomains
      ]_vars

\* A save failed and its fallback write stored the statistics alone; a later
\* save of the registry is under way.
C28_Witness ==
    /\ storage.keys = {"statistics"}
    /\ saving.pendingSave
    /\ saving.attempt = 1
    /\ Len(saving.data.detectedDomains) = 2
    /\ now >= RetryDelayMs + 2 * RetryDelayMs

\* C23: while the extension is enabled, every request to a host that equals
\* or is a dot-subdomain of a third-party tracking domain is cancelled, a
\* repeat of the same URL within the deduplication window included.
C23_ThirdPartyRequestCancelled ==
    [][ (/\ out'.kind = "request"
         /\ steps' = steps + 1
         /\ isEnabled
         /\ Parses[out'.event.url]
         /\ ThirdParty[Hostname[out'.event.url]]) =>
           out'.cancel
      ]_vars

\* C24: isKnownTrackingDomain(hostname) is true exactly when the hostname
\* equals a listed tracking domain or ends with "." followed by one; a
\* hostname that ends with a tracker's name without the dot, such as
\* notfacebook.net, is not known.
C24_KnownByDotBoundary ==
    (probe.fn = "determineBlockingTarget" /\ probe.done) =>
       (probe.known <=>
          \E d \in KNOWN_TRACKING_DOMAINS \cup TRACKING_DOMAIN_SUFFIXES :
             probe.host = d \/ EndsWith(probe.host, "." \o d))

\* C25: determineBlockingTarget returns shouldBlock = FALSE exactly when the
\* domain is not third-party, the sensitivity is 'low' and the detection is
\* not a self-hosted request under blockSelfHosted; in every result
\* addToBlocklist implies shouldBlock, the method is 'network_level' iff
\* addToBlocklist and 'none' iff not shouldBlock.
C25_ResolverOrder ==
    (probe.fn = "determineBlockingTarget" /\ probe.done) =>
       /\ ~probe.info.shouldBlock <=>
             /\ ~\E t \in THIRD_PARTY_TRACKING_DOMAINS :
                    probe.host = t \/ EndsWith(probe.host, "." \o t)
             /\ probe.detectionSensitivity = "low"
             /\ ~(SelfHostedPath(probe.path) /\ probe.blockSelfHosted)
       /\ probe.info.addToBlocklist => probe.info.shouldBlock
       /\ probe.info.blockingMethod = "network_level" <=> probe.info.addToBlocklist
       /\ probe.info.blockingMethod = "none" <=> ~probe.info.shouldBlock

\* Low sensitivity, a self-hosted path, blockSelfHosted: blocked in the
\* browser only, while the third-party host of the same path is listed.
C25_Witness ==
    /\ probe.fn = "determineBlockingTarget"
    /\ probe.done
    /\ probe.detectionSensitivity = "low"
    /\ probe.path = "/collect?v=1"
    /\ \/ /\ probe.host = "myhotjar.com"
          /\ probe.blockSelfHosted
          /\ probe.info.blockingMethod = "browser_only"
       \/ /\ probe.host = "cdn.hotjar.com"
          /\ probe.info.blockingMethod = "network_level"

(***************************************************************************)
(* updateDetectedDomain and handleZombieCookieDetection applied on their   *)
(* own to a drawn registry: an ordinary record of news.example seen 1 to   *)
(* MaxDetails + 1 times, a zombie record of the same domain, both or       *)
(* neither.                                                                *)
(***************************************************************************)
RecordMethods == {"javascript", "zombie-storage"}

RecordDomains == {"news.example", "shop.example"}

RecordTypes == { <<"javascript">>, <<"zombie-storage">>, <<"javascript", "zombie-storage">> }

\* An ordinary record after frequency detections, the first at time 100.
SeenRecord(key, frequency, gaTypes) ==
    [key |-> key, firstSeen |-> 100, lastSeen |-> IF frequency = 1 THEN 100 ELSE 200,
     frequency |-> frequency, gaTypes |-> gaTypes, blocked |-> TRUE,
     details |-> [i \in 1..(IF frequency < MaxDetails THEN frequency ELSE MaxDetails)
                     |-> "localStorage:_ga"],
     hostDomain |-> key, isZombieCookie |-> FALSE]

\* A zombie record after frequency detections: one detail, no hostDomain.
SeenZombie(key, frequency, gaTypes) ==
    [key |-> key, firstSeen |-> 100, lastSeen |-> IF frequency = 1 THEN 100 ELSE 200,
     frequency |-> frequency, gaTypes |-> gaTypes, blocked |-> TRUE,
     details |-> <<"localStorage:_ga">>, hostDomain |-> "", isZombieCookie |-> TRUE]

OrdinaryDraws ==
    { <<>> } \cup { <<SeenRecord("news.example", n, t)>> :
                        n \in 1..(MaxDetails + 1), t \in RecordTypes }

ZombieDraws ==
    { <<>> } \cup { <<SeenZombie("news.example_zombie", n, t)>> :
                        n \in 1..2, t \in RecordTypes }

NoCall == [fn |-> "none", calls |-> 0, key |-> "", method |-> "", details |-> "",
           before |-> <<>>]

InitRecord ==
    /\ isEnabled = TRUE
    /\ blockedToday = 0
    /\ cookiesDeleted = 0
    /\ \E o \in OrdinaryDraws, z \in ZombieDraws : detectedDomains = o \o z
    /\ settings = DefaultSettings
    /\ performanceStats = [requestsProcessed |-> 0, requestsBlocked |-> 0]
    /\ recentRequests = {}
    /\ timers = [save |-> -1, cleanup |-> -1]
    /\ pendingRemoves = 0
    /\ now = 300
    /\ steps = 0
    /\ out = NoOut
    /\ saving = NotSaving
    /\ probe = NoCall
    /\ storage = EmptyStorage

ApplyUpdateDetectedDomain(domainKey, method, details) ==
    /\ probe.calls < MaxCalls
    /\ detectedDomains' = updateDetectedDomain(detectedDomains, domainKey, method,
                                               details, domainKey, now)
    /\ probe' = [fn |-> "updateDetectedDomain", calls |-> probe.calls + 1,
                 key |-> domainKey, method |-> method, details |-> details,
                 before |-> detectedDomains]
    /\ UNCHANGED <<isEnabled, blockedToday, cookiesDeleted, settings, performanceStats,
                   recentRequests, timers, pendingRemoves, now, steps, out, storage,
                   saving>>

ApplyZombieCookieDetection(domain, method, details) ==
    /\ probe.calls < MaxCalls
    /\ detectedDomains' = handleZombieCookieDetection(detectedDomains, domain, method,
                                                      details, now)
    /\ timers' = ArmSave(timers, ~validateDomainThrows(domain))
    /\ probe' = [fn |-> "handleZombieCookieDetection", calls |-> probe.calls + 1,
                 key |-> Clean[domain] \o "_zombie", method |-> method,
                 details |-> details, before |-> detectedDomains]
    /\ UNCHANGED <<isEnabled, blockedToday, cookiesDeleted, settings, performanceStats,
                   recentRequests, pendingRemoves, now, steps, out, storage, saving>>

NextRecord ==
    \/ \E d \in RecordDomains, m \in RecordMethods :
          ApplyUpdateDetectedDomain(d, m, "gtag('config','G-1')")
    \/ \E d \in RecordDomains, m \in RecordMethods :
          ApplyZombieCookieDetection(d, m, "gtag('config','G-1')")

SpecRecord == InitRecord /\ [][NextRecord]_vars

NoDuplicates(seq) == \A i, j \in 1..Len(seq) : seq[i] = seq[j] => i = j

\* The update of the record at key k, from the registry before the call,
\* as the description gives it: created with one method and one detail, or
\* seen again with the method added if new and the detail appended below
\* MaxDetails.
UpdatedAsDescribed(before, after, k, method, details, timestamp) ==
    /\ HasKey(after, k)
    /\ IF ~HasKey(before, k)
       THEN /\ Get(after, k).frequency = 1
            /\ Get(after, k).gaTypes = <<method>>
            /\ Get(after, k).details = <<details>>
            /\ Get(after, k).firstSeen = timestamp
            /\ Get(after, k).lastSeen = timestamp
       ELSE /\ Get(after, k).lastSeen = timestamp
            /\ Get(after, k).frequency = Get(before, k).frequency + 1
            /\ Get(after, k).firstSeen = Get(before, k).firstSeen
            /\ Get(after, k).gaTypes =
                  IF SeqIncludes(Get(before, k).gaTypes, method)
                  THEN Get(before, k).gaTypes
                  ELSE Get(before, k).gaTypes \o <<method>>
            /\ Get(after, k).details =
                  IF Len(Get(before, k).details) < 5
                  THEN Get(before, k).details \o <<details>>
                  ELSE Get(before, k).details

\* C26: updateDetectedDomain creates a record with frequency 1, the method
\* and the detail alone and firstSeen = lastSeen = now; on a repeat it sets
\* lastSeen, adds 1 to frequency, adds the method only if absent, appends the
\* detail only below 5 details and keeps firstSeen; so every record has
\* frequency >= 1, gaTypes without duplicates and at most 5 details.
C26_RecordUpdate ==
    /\ probe.fn = "updateDetectedDomain" =>
          UpdatedAsDescribed(probe.before, detectedDomains, probe.key, probe.method,
                             probe.details, now)
    /\ \A i \in 1..Len(detectedDomains) :
          /\ detectedDomains[i].frequency >= 1
          /\ NoDuplicates(detectedDomains[i].gaTypes)
          /\ Len(detectedDomains[i].details) <= 5

\* A record with 5 details seen again with a method it already has.
C26_Witness ==
    /\ probe.fn = "updateDetectedDomain"
    /\ HasKey(probe.before, probe.key)
    /\ Len(Get(probe.before, probe.key).details) = 5
    /\ SeqIncludes(Get(probe.before, probe.key).gaTypes, probe.method)
    /\ Get(detectedDomains, probe.key).frequency > 5

\* C27: handleZombieCookieDetection applies the update of updateDetectedDomain
\* to the key domain + '_zombie', sets isZombieCookie on creation and leaves
\* the ordinary record of the domain as it was.
C27_ZombieSameSemantics ==
    probe.fn = "handleZombieCookieDetection" =>
       /\ UpdatedAsDescribed(probe.before, detectedDomains, probe.key, probe.method,
                             probe.details, now)
       /\ ~HasKey(probe.before, probe.key) => Get(detectedDomains, probe.key).isZombieCookie
       /\ \A i \in 1..Len(probe.before) :
             probe.before[i].key # probe.key => detectedDomains[i] = probe.before[i]

\* C29: while isEnabled is false no request is cancelled, no cookie is
\* deleted, and a request, a cookie change, a GA_DETECTED message and a
\* ZOMBIE_COOKIE_DETECTED message leave detectedDomains, blockedToday and
\* cookiesDeleted unchanged.
C29_DisabledChangesNothing ==
    [][(/\ ~isEnabled
        /\ steps' = steps + 1
        /\ out'.kind \in {"request", "cookie", "GA_DETECTED", "ZOMBIE_COOKIE_DETECTED"})
       => /\ ~out'.cancel
          /\ ~out'.deleteCookie
          /\ UNCHANGED <<detectedDomains, blockedToday, cookiesDeleted>>]_vars

StaleMs == 5000

\* The clock's step, shorter than the cleanup debounce.
AdvanceMs == 3000

\* The present: ages up to this are told apart.
TrafficNow == 21000

\* requestsProcessed is counted up to this.
TrafficStatsCap == 2

InitTraffic ==
    /\ isEnabled = TRUE
    /\ blockedToday = 0
    /\ cookiesDeleted = 0
    /\ detectedDomains = <<>>
    /\ settings = DefaultSettings
    /\ performanceStats = [requestsProcessed |-> 0, requestsBlocked |-> 0]
    /\ recentRequests = {}
    /\ timers = [save |-> -1, cleanup |-> -1]
    /\ pendingRemoves = 0
    /\ now = TrafficNow
    /\ steps = 0
    /\ out = NoOut
    /\ saving = NotSaving
    /\ probe = NoProbe
    /\ storage = EmptyStorage

\* The listener on a request that matches no tracker: the deduplication
\* test, recentRequests.set, cleanupRecentRequests() and the statistics.
TrafficRequest(url) ==
    /\ isEnabled
    /\ Parses[url] /\ ~Known[Hostname[url]] /\ ~Tracking[url]
    /\ out' = [NoOut EXCEPT !.kind = "request", !.event = [url |-> url],
                            !.processed = ~Deduplicated(url)]
    /\ recentRequests' = IF Deduplicated(url) THEN recentRequests
                         ELSE RememberRequest(url)
    /\ timers' = IF Deduplicated(url) THEN timers
                 ELSE [timers EXCEPT !.cleanup = now + CleanupDebounceMs]
    /\ performanceStats' =
          IF Deduplicated(url) \/ performanceStats.requestsProcessed >= TrafficStatsCap
          THEN performanceStats
          ELSE updatePerformanceStats(performanceStats, FALSE)
    /\ UNCHANGED <<isEnabled, blockedToday, cookiesDeleted, detectedDomains, settings,
                   pendingRemoves, now, steps, probe, storage, saving>>

\* The debounced callback of cleanupRecentRequests runs: every entry with
\* timestamp < Date.now() - 5000 is deleted.
CleanupTimerFires ==
    /\ timers.cleanup # -1
    /\ now >= timers.cleanup
    /\ recentRequests' = { r \in recentRequests : ~(r.at < now - StaleMs) }
    /\ timers' = [timers EXCEPT !.cleanup = -1]
    /\ UNCHANGED <<isEnabled, blockedToday, cookiesDeleted, detectedDomains, settings,
                   performanceStats, pendingRemoves, now, steps, out, probe, storage,
                   saving>>

\* AdvanceMs pass, unless the cleanup timer is due.
Advance ==
    /\ timers.cleanup = -1 \/ now < timers.cleanup
    /\ recentRequests' = { [url |-> r.url,
                            at |-> IF r.at < AdvanceMs THEN 0 ELSE r.at - AdvanceMs] :
                           r \in recentRequests }
    /\ timers' = IF timers.cleanup = -1 THEN timers
                 ELSE [timers EXCEPT !.cleanup = @ - AdvanceMs]
    /\ UNCHANGED <<isEnabled, blockedToday, cookiesDeleted, detectedDomains, settings,
                   performanceStats, pendingRemoves, now, steps, out, probe, storage,
                   saving>>

NextTraffic ==
    \/ \E url \in TrafficUrls : TrafficRequest(url)
    \/ CleanupTimerFires
    \/ Advance

\* A due timer callback runs, and time passes.
SpecTraffic ==
    /\ InitTraffic
    /\ [][NextTraffic]_vars
    /\ SF_vars(CleanupTimerFires)
    /\ WF_vars(Advance)

Stale(url) == \E r \in recentRequests : r.url = url /\ r.at < now - StaleMs

\* C31: an entry of recentRequests older than 5 seconds is removed (or
\* replaced by a newer one of its URL) some time later, whatever the
\* arrival pattern of the requests.
C31_StaleEntriesRemoved ==
    \A url \in TrafficUrls : Stale(url) ~> ~Stale(url)

(***************************************************************************)
(* cleanupZombieStorage of the content script, one loop iteration per      *)
(* step, over a drawn localStorage.  store is the sequence of keys in the  *)
(* order of localStorage.key(i).  That order is left to the browser once   *)
(* the number of keys changes, so a removal is followed by any order of    *)
(* the remaining keys.                                                     *)
(***************************************************************************)
\* Math.min(localStorage.length, 30)
MaxScanKeys == 30

ZOMBIE_PATTERNS ==
    { "_ga_backup", "_gid_backup", "analytics_backup", "tracking_id", "user_fingerprint",
      "client_id_backup", "visitor_id_", "session_backup" }

\* COMPILED_PATTERNS.zombie tested against a key.
isZombieKey(key) == \E pattern \in ZOMBIE_PATTERNS : Includes(key, pattern)

StoreKeys == { "_ga_backup", "tracking_id", "visitor_id_7", "theme" }

\* The sequences of the keys of S, each once.
Orders(S) ==
    { f \in [1..Cardinality(S) -> S] : \A i, j \in DOMAIN f : f[i] = f[j] => i = j }

SeqRange(seq) == { seq[i] : i \in DOMAIN seq }

InitStore ==
    /\ isEnabled = TRUE
    /\ blockedToday = 0
    /\ cookiesDeleted = 0
    /\ detectedDomains = <<>>
    /\ settings = DefaultSettings
    /\ performanceStats = [requestsProcessed |-> 0, requestsBlocked |-> 0]
    /\ recentRequests = {}
    /\ timers = [save |-> -1, cleanup |-> -1]
    /\ pendingRemoves = 0
    /\ now = 0
    /\ steps = 0
    /\ out = NoOut
    /\ saving = NotSaving
    /\ storage = EmptyStorage
    /\ \E S \in SUBSET StoreKeys : \E order \in Orders(S) :
          probe = [fn |-> "cleanupZombieStorage", phase |-> "idle", store |-> order,
                   i |-> 0, maxKeys |-> 0, cleanedCount |-> 0, reported |-> ""]

\* let cleanedCount = 0; const maxKeys = Math.min(localStorage.length, 30)
StartCleanup ==
    /\ probe.fn = "cleanupZombieStorage"
    /\ probe.phase = "idle"
    /\ probe' = [probe EXCEPT
                    !.phase = IF Len(probe.store) = 0 THEN "done" ELSE "loop",
                    !.maxKeys = IF Len(probe.store) < MaxScanKeys
                                THEN Len(probe.store) ELSE MaxScanKeys]
    /\ UNCHANGED <<coreVars, storage, saving>>

\* The body of the loop for key: removeItem and the report of the first removal.
CleanupKey(key, order) ==
    probe' = [probe EXCEPT
                 !.store = order,
                 !.cleanedCount = @ + 1,
                 !.reported = IF probe.cleanedCount = 0 THEN "Removed: " \o key ELSE @,
                 !.i = @ + 1,
                 !.phase = IF probe.i + 1 < probe.maxKeys THEN "loop" ELSE "done"]

\* One iteration: localStorage.key(i) is null past the last key.
CleanupStep ==
    /\ probe.fn = "cleanupZombieStorage"
    /\ probe.phase = "loop"
    /\ IF probe.i + 1 <= Len(probe.store) /\ isZombieKey(probe.store[probe.i + 1])
       THEN \E order \in Orders(SeqRange(probe.store) \ {probe.store[probe.i + 1]}) :
               CleanupKey(probe.store[probe.i + 1], order)
       ELSE probe' = [probe EXCEPT
                         !.i = @ + 1,
                         !.phase = IF probe.i + 1 < probe.maxKeys THEN "loop" ELSE "done"]
    /\ UNCHANGED <<coreVars, storage, saving>>

NextStore == StartCleanup \/ CleanupStep

SpecStore == InitStore /\ [][NextStore]_vars

\* C32: after one pass of cleanupZombieStorage over at most 30 keys no key
\* that matches a zombie pattern is left in localStorage.
C32_NoZombieKeyLeft ==
    (probe.fn = "cleanupZombieStorage" /\ probe.phase = "done") =>
       \A k \in SeqRange(probe.store) : ~isZombieKey(k)

\* A pattern of family n matches the content.
FamilyMatches(n, content) == \E p \in COMPILED_PATTERNS[n] : ScriptPatternTest(p, content)

\* C33: an inline script is attributed to the first family, in the order
\* Google Analytics, Facebook, Adobe, Session Recording, TikTok, that has a
\* matching pattern, and at most one 'javascript' detection is reported for
\* it however many families or patterns match.
C33_FirstFamilyOnly ==
    (probe.fn = "safeScanInlineScript" /\ probe.done) =>
       /\ \A i, j \in DOMAIN probe.reports :
             (probe.reports[i].method = "javascript" /\ probe.reports[j].method = "javascript")
                => i = j
       /\ \A n \in 1..5 :
             (/\ FamilyMatches(n, probe.content)
              /\ \A m \in 1..(n - 1) : ~FamilyMatches(m, probe.content))
             => /\ Len(probe.reports) >= 1
                /\ probe.reports[1].method = "javascript"
                /\ probe.reports[1].details = FamilyNames[n] \o " in document"

\* A script that calls fbq before gtag and ga is reported once, as Google
\* Analytics; one that calls ttq.track, hj and s.t is reported as Adobe.
C33_Witness ==
    /\ probe.fn = "safeScanInlineScript"
    /\ probe.done
    /\ \/ /\ FamilyMatches(1, probe.content)
          /\ FamilyMatches(2, probe.content)
          /\ probe.reports[1].details = "Google Analytics in document"
       \/ /\ FamilyMatches(3, probe.content)
          /\ FamilyMatches(4, probe.content)
          /\ FamilyMatches(5, probe.content)
          /\ probe.reports[1].details = "Adobe in document"

(***************************************************************************)
(* handleMessage over every message type: the types handled above, the     *)
(* remaining cases of the switch, a type that is not in the switch and a   *)
(* message without a type.                                                 *)
(***************************************************************************)
\* case 'CLEAR_STATS'
OnClearStats ==
    /\ steps < MaxSteps
    /\ steps' = steps + 1
    /\ blockedToday' = 0
    /\ cookiesDeleted' = 0
    /\ performanceStats' = [requestsProcessed |-> 0, requestsBlocked |-> 0]
    /\ timers' = ArmSave(timers, TRUE)
    /\ out' = [NoOut EXCEPT !.kind = "CLEAR_STATS", !.processed = TRUE,
                            !.response = "success", !.responses = 1]
    /\ UNCHANGED <<isEnabled, detectedDomains, settings, recentRequests, pendingRemoves,
                   now, probe, storage, saving>>

\* case 'GET_DETECTED_DOMAINS': the entries of the Map are the response.
OnGetDetectedDomains ==
    /\ steps < MaxSteps
    /\ steps' = steps + 1
    /\ out' = [NoOut EXCEPT !.kind = "GET_DETECTED_DOMAINS", !.processed = TRUE,
                            !.exported = Keys(detectedDomains), !.responses = 1]
    /\ UNCHANGED <<isEnabled, blockedToday, cookiesDeleted, detectedDomains, settings,
                   performanceStats, recentRequests, timers, pendingRemoves, now, probe,
                   storage, saving>>

\* case 'GET_ERROR_LOG': storage.local.get resolves or rejects.
OnGetErrorLog(ok) ==
    /\ steps < MaxSteps
    /\ steps' = steps + 1
    /\ out' = [NoOut EXCEPT !.kind = "GET_ERROR_LOG", !.processed = ok,
                            !.response = IF ok THEN "" ELSE "Failed to get error log",
                            !.responses = 1]
    /\ UNCHANGED <<isEnabled, blockedToday, cookiesDeleted, detectedDomains, settings,
                   performanceStats, recentRequests, timers, pendingRemoves, now, probe,
                   storage, saving>>

\* case 'EXPORT_BLOCKLIST' with a format exportBlocklist does not know: it
\* throws, and the case's catch answers.
OnExportUnsupported(format) ==
    /\ steps < MaxSteps
    /\ steps' = steps + 1
    /\ format \notin ExportFormats
    /\ MessageFailed("EXPORT_BLOCKLIST", [format |-> format],
                     "Export failed: Export failed: Unsupported export format: " \o format)
    /\ UNCHANGED <<probe, storage, saving>>

\* The default case, and the test before the switch for a message that is
\* null or has no string type (type "" here).
OnUnknownMessage(type) ==
    /\ steps < MaxSteps
    /\ steps' = steps + 1
    /\ MessageFailed(type, [type |-> type],
                     IF type = "" THEN "Invalid message format"
                     ELSE "Unknown message type: " \o type)
    /\ UNCHANGED <<probe, storage, saving>>

MessageDetections ==
    DetectionMessages
    \cup [domain : {LongDomain}, method : {"javascript"}, details : {"gtag('config','G-1')"}]

MessageZombies ==
    ZombieMessages
    \cup [domain : {LongDomain}, method : {"zombie-storage"}, details : {"localStorage:_ga"}]

MessageSettings == { [detectionSensitivity |-> "low"], [maxHostsEntries |-> MinHostsEntries - 1] }

NextMessage ==
    \/ \E msg \in MessageDetections : OnGaDetected(msg)
    \/ \E msg \in MessageZombies : OnZombieCookieDetected(msg)
    \/ \E upd \in MessageSettings : OnSettingsUpdated(upd)
    \/ OnToggleEnabled
    \/ OnExportBlocklist("hosts")
    \/ OnExportUnsupported("csv")
    \/ OnGetStats
    \/ OnClearStats
    \/ OnGetDetectedDomains
    \/ \E ok \in BOOLEAN : OnGetErrorLog(ok)
    \/ \E type \in {"", "PING"} : OnUnknownMessage(type)

SpecMessage == Init /\ [][NextMessage]_vars

\* C34: a GA_DETECTED or ZOMBIE_COOKIE_DETECTED message whose domain is
\* missing, empty or longer than 253 characters is answered with an error
\* and changes neither the registry nor the counters nor the settings.
C34_InvalidDomainRejected ==
    [][(/\ steps' = steps + 1
        /\ out'.kind \in {"GA_DETECTED", "ZOMBIE_COOKIE_DETECTED"}
        /\ (Len(out'.event.domain) = 0 \/ Len(out'.event.domain) > 253))
       => /\ out'.responses = 1
          /\ out'.response \in {"Failed to process detection",
                                "Failed to process zombie cookie detection"}
          /\ UNCHANGED <<detectedDomains, blockedToday, cookiesDeleted, settings,
                         isEnabled, performanceStats, timers>>]_vars

\* A detection with a domain of 254 characters was refused.
C34_Witness ==
    /\ out.kind = "GA_DETECTED"
    /\ Len(out.event.domain) = 254
    /\ out.response = "Failed to process detection"

HandlerMaxRetries == 3

\* The calls of safeSaveSettings that start a write.
MaxSaves == 2

NoChain == [phase |-> "unused", value |-> 0, attempts |-> 0, awaited |-> FALSE,
            invoked |-> 0]

InitOptions ==
    /\ isEnabled = TRUE
    /\ blockedToday = 0
    /\ cookiesDeleted = 0
    /\ detectedDomains = <<>>
    /\ settings = DefaultSettings
    /\ performanceStats = [requestsProcessed |-> 0, requestsBlocked |-> 0]
    /\ recentRequests = {}
    /\ timers = [save |-> -1, cleanup |-> -1]
    /\ pendingRemoves = 0
    /\ now = 0
    /\ steps = 0
    /\ out = NoOut
    /\ saving = NotSaving
    /\ storage = EmptyStorage
    /\ probe = [fn |-> "safeSaveSettings",
                pageSettings |-> [maxHostsEntries |-> MinHostsEntries],
                saveInProgress |-> FALSE, retryAttempts |-> -1,
                chains |-> [c \in 1..MaxSaves |-> NoChain], started |-> 0,
                message |-> ""]

\* this.retryAttempts.get(retryKey) || 0
retryAttemptsGet == IF probe.retryAttempts = -1 THEN 0 ELSE probe.retryAttempts

Unfinished(c) == probe.chains[c].phase \in {"op", "wait"}

\* The user changes a setting on the page.
EditSettings ==
    /\ probe.fn = "safeSaveSettings"
    /\ probe.pageSettings.maxHostsEntries <= MaxHostsLimit
    /\ probe' = [probe EXCEPT !.pageSettings.maxHostsEntries = @ + 1]
    /\ UNCHANGED <<coreVars, storage, saving>>

\* safeSaveSettings up to its first await: the saveInProgress test, the
\* validation, and withRetry's first call of the operation.
SafeSaveSettings ==
    /\ probe.fn = "safeSaveSettings"
    /\ probe.saveInProgress \/ DataValidatorThrows(probe.pageSettings)
          \/ probe.started < MaxSaves
    /\ probe' =
          IF probe.saveInProgress
          THEN [probe EXCEPT !.message = "Save already in progress"]
          ELSE IF DataValidatorThrows(probe.pageSettings)
          THEN [probe EXCEPT !.message = "Failed to save settings"]
          ELSE [probe EXCEPT
                   !.saveInProgress = TRUE,
                   !.started = @ + 1,
                   !.message = "",
                   !.chains[probe.started + 1] =
                       [phase |-> "op", value |-> probe.pageSettings.maxHostsEntries,
                        attempts |-> retryAttemptsGet, awaited |-> TRUE, invoked |-> 1]]
    /\ UNCHANGED <<coreVars, storage, saving>>

\* storage.local.set of chain c resolved: withRetry deletes the counter and
\* returns; a caller still waiting notifies the background and ends.
WriteResolved(c) ==
    /\ probe.fn = "safeSaveSettings"
    /\ probe.chains[c].phase = "op"
    /\ storage' = [storage EXCEPT
                      !.keys = @ \cup {"settings"},
                      !.settings = [maxHostsEntries |-> probe.chains[c].value]]
    /\ probe' = [probe EXCEPT
                    !.retryAttempts = -1,
                    !.chains[c].phase = "done",
                    !.chains[c].awaited = FALSE,
                    !.saveInProgress = IF probe.chains[c].awaited THEN FALSE ELSE @,
                    !.message = IF probe.chains[c].awaited
                                THEN "Settings saved successfully" ELSE @]
    /\ settings' = IF probe.chains[c].awaited
                   THEN AssignSettings(settings, [maxHostsEntries |-> probe.chains[c].value])
                   ELSE settings
    /\ timers' = ArmSave(timers, probe.chains[c].awaited)
    /\ UNCHANGED <<isEnabled, blockedToday, cookiesDeleted, detectedDomains,
                   performanceStats, recentRequests, pendingRemoves, now, steps, out,
                   saving>>

\* storage.local.set of chain c rejected: the catch of withRetry.
WriteRejected(c) ==
    /\ probe.fn = "safeSaveSettings"
    /\ probe.chains[c].phase = "op"
    /\ probe' =
          IF probe.chains[c].attempts < HandlerMaxRetries
          THEN [probe EXCEPT !.retryAttempts = probe.chains[c].attempts + 1,
                             !.chains[c].phase = "wait"]
          ELSE [probe EXCEPT
                   !.retryAttempts = -1,
                   !.chains[c].phase = "done",
                   !.chains[c].awaited = FALSE,
                   !.saveInProgress = IF probe.chains[c].awaited THEN FALSE ELSE @,
                   !.message = IF probe.chains[c].awaited
                               THEN "Failed to save settings" ELSE @]
    /\ UNCHANGED <<coreVars, storage, saving>>

\* The delay of chain c is over: return this.withRetry(...) reads the
\* counter again and calls the operation.
RetryDelayElapsed(c) ==
    /\ probe.fn = "safeSaveSettings"
    /\ probe.chains[c].phase = "wait"
    /\ probe' = [probe EXCEPT !.chains[c].phase = "op",
                              !.chains[c].attempts = retryAttemptsGet,
                              !.chains[c].invoked = @ + 1]
    /\ UNCHANGED <<coreVars, storage, saving>>

\* withTimeout rejects after 8000 ms: safeSaveSettings reaches its catch and
\* finally; the chain it waited for goes on.
SaveTimedOut(c) ==
    /\ probe.fn = "safeSaveSettings"
    /\ Unfinished(c)
    /\ probe.chains[c].awaited
    /\ probe' = [probe EXCEPT !.chains[c].awaited = FALSE,
                              !.saveInProgress = FALSE,
                              !.message = "Failed to save settings"]
    /\ UNCHANGED <<coreVars, storage, saving>>

NextOptions ==
    \/ EditSettings
    \/ SafeSaveSettings
    \/ \E c \in 1..MaxSaves : WriteResolved(c)
    \/ \E c \in 1..MaxSaves : WriteRejected(c)
    \/ \E c \in 1..MaxSaves : RetryDelayElapsed(c)
    \/ \E c \in 1..MaxSaves : SaveTimedOut(c)

SpecOptions == InitOptions /\ [][NextOptions]_vars

\* C36: at most one call of safeSaveSettings, its retries included, is
\* unfinished at any time, and saveInProgress is false whenever none is.
C36_OneSettingsWrite ==
    probe.fn = "safeSaveSettings" =>
       /\ Cardinality({ c \in 1..MaxSaves : Unfinished(c) }) <= 1
       /\ (\A c \in 1..MaxSaves : ~Unfinished(c)) => ~probe.saveInProgress

\* C38: one call of withRetry calls its operation at most maxRetries + 1
\* times, also when other calls with the same operationName are under way.
C38_RetryBounded ==
    probe.fn = "safeSaveSettings" =>
       \A c \in 1..MaxSaves : probe.chains[c].invoked <= HandlerMaxRetries + 1

(***************************************************************************)
(* safeReport of the content script and its detected set.  detected is     *)
(* the Set in insertion order.  The cache limit of 25 keys and the 10 keys *)
(* removed beyond it are scaled to DetectedLimit and EvictBatch.           *)
(***************************************************************************)
\* if (this.detected.size > 25)
DetectedLimit == 3

\* Array.from(this.detected).slice(0, 10)
EvictBatch == 2

ReportCalls ==
    [method : {"javascript", "gtm", ""},
     details : {"Google Analytics in document", "Container: GTM-ABCD12"},
     targetDomain : {"", "www.google-analytics.com"}]

\* `${method}:${details}:${targetDomain || this.domain}`
detectionKey(method, details, targetDomain, domain) ==
    method \o ":" \o details \o ":" \o (IF targetDomain = "" THEN domain ELSE targetDomain)

\* A set that is never trimmed.
manageCacheSizeNever(seq) == seq

\* The oldest EvictBatch keys are deleted once the size exceeds the limit.
manageCacheSize(seq) ==
    IF Len(seq) > DetectedLimit
    THEN SubSeq(seq, (IF EvictBatch < Len(seq) THEN EvictBatch ELSE Len(seq)) + 1, Len(seq))
    ELSE seq

\* A call that sent nothing; removed counts the keys a call deleted.
NotReported(key) ==
    [key |-> key, sent |-> FALSE, removed |-> 0, message |-> [none |-> TRUE]]

InitReport ==
    /\ isEnabled = TRUE
    /\ blockedToday = 0
    /\ cookiesDeleted = 0
    /\ detectedDomains = <<>>
    /\ settings = DefaultSettings
    /\ performanceStats = [requestsProcessed |-> 0, requestsBlocked |-> 0]
    /\ recentRequests = {}
    /\ timers = [save |-> -1, cleanup |-> -1]
    /\ pendingRemoves = 0
    /\ now = 0
    /\ steps = 0
    /\ out = NoOut
    /\ saving = NotSaving
    /\ storage = EmptyStorage
    /\ probe = [fn |-> "safeReport", domain |-> "news.example", detected |-> <<>>,
                last |-> NotReported("")]

SafeReportKey(call, key) ==
    probe' =
       IF call.method = "" \/ call.details = ""
       THEN [probe EXCEPT !.last = NotReported("")]
       ELSE IF SeqIncludes(probe.detected, key)
       THEN [probe EXCEPT !.last = NotReported(key)]
       ELSE [probe EXCEPT
                !.detected = manageCacheSize(Append(probe.detected, key)),
                !.last = [key |-> key, sent |-> TRUE,
                          removed |-> Len(probe.detected) + 1
                                      - Len(manageCacheSize(Append(probe.detected, key))),
                          message |-> Report(call.method, call.details,
                                             call.targetDomain, probe.domain)]]

SafeReport(call) ==
    /\ probe.fn = "safeReport"
    /\ SafeReportKey(call, detectionKey(call.method, call.details, call.targetDomain,
                                        probe.domain))
    /\ UNCHANGED <<coreVars, storage, saving>>

NextReport == \E call \in ReportCalls : SafeReport(call)

SpecReport == InitReport /\ [][NextReport]_vars

\* C37: the detected set never holds more than the limit of keys (with the
\* key beyond the limit the oldest EvictBatch keys go), and a detection whose
\* key is in the set is not sent again.
C37_DetectedBounded ==
    [][probe'.fn = "safeReport" =>
          /\ Len(probe'.detected) <= DetectedLimit
          /\ probe'.last.sent =>
                /\ ~SeqIncludes(probe.detected, probe'.last.key)
                /\ SeqIncludes(probe'.detected, probe'.last.key)
          /\ (probe'.last.sent /\ Len(probe.detected) = DetectedLimit) =>
                probe'.detected =
                   SubSeq(probe.detected, EvictBatch + 1, DetectedLimit)
                      \o <<probe'.last.key>>
          /\ (probe'.last.sent /\ Len(probe.detected) < DetectedLimit) =>
                probe'.detected = probe.detected \o <<probe'.last.key>>
          /\ ~probe'.last.sent => probe'.detected = probe.detected]_vars

\* A report was sent with the set full, and the oldest keys are gone.
C37_Witness ==
    /\ probe.fn = "safeReport"
    /\ probe.last.sent
    /\ probe.last.removed = EvictBatch
    /\ Len(probe.detected) = DetectedLimit + 1 - EvictBatch
    /\ probe.detected[Len(probe.detected)] = probe.last.key

====
